---- MODULE Spec2Model ----
(***************************************************************************)
(* A model of the tenant-isolated data-access and ingestion pipeline of    *)
(* the CRM backend: the relational store's tables, the connection pool,    *)
(* the entity access modules (models/*.js) and the request handlers        *)
(* (controllers/*.js).  Every `await` of a handler is one step, so that    *)
(* the states other requests can observe between two statements exist in   *)
(* the model.  A store statement may fail (the store is an external        *)
(* collaborator): each statement step has a failing outcome that throws    *)
(* into the handler's catch block.                                         *)
(***************************************************************************)
EXTENDS Integers, Sequences, FiniteSets, Bags, TLC

VARIABLES
    contacts,       \* table contacts
    leads,          \* table leads
    activity_log,   \* table activity_log (committed rows)
    companies,      \* table companies
    opportunities,  \* table opportunities
    tasks,          \* table tasks
    interactions,   \* table interactions
    tags,           \* table tags
    lead_tags,      \* table lead_tags, a bag of <<lead_id, tag_id>>
    nextId,         \* the next value gen_random_uuid() yields
    user_rows,      \* table team_users, as UserModel.update rewrites it
    pipeline_stages, \* table pipeline_stages
    conn,           \* the pool's connections
    req             \* the requests in flight, one record per slot

store == <<contacts, leads, activity_log, companies, opportunities, tasks,
           interactions, tags, lead_tags, nextId, user_rows, pipeline_stages>>
vars == <<contacts, leads, activity_log, companies, opportunities, tasks,
          interactions, tags, lead_tags, nextId, user_rows, pipeline_stages, conn, req>>

----------------------------------------------------------------------------
(* Bounds of the model *)

\* rows the store may generate an id for
MaxRows == 2
\* connections of the pool
NumConn == 2

----------------------------------------------------------------------------
(* Values *)

\* SQL NULL / JS null / undefined for an id; "" stands for an absent text
NULL == 0

\* rows of table tenants
Tenants == {1, 2}
\* tenant ids a webhook payload may carry (3 is no row of tenants)
PayloadTenants == {1, 2, 3}

\* rows of table team_users: one active user per tenant, id = tenant id
team_users == { [id |-> t, tenant_id |-> t, is_active |-> TRUE] : t \in Tenants }
UserIds == { u.id : u \in team_users }

\* ids of the rows a specification may start with
SeedIds == {3, 4}
FirstRowId == Cardinality(team_users) + Cardinality(SeedIds) + 1
MaxId == FirstRowId + MaxRows - 1

Conns == 1 .. NumConn
Reqs == {1, 2}

Emails == {"", "a@x.com"}
Phones == {"", "555"}
FirstNames == {"", "Jo"}
LastNames == {""}
VisitorIds == {"", "kf1"}

----------------------------------------------------------------------------
(* The connection pool and the transaction state of a connection *)

FreshConn == [borrowed |-> FALSE, inTx |-> FALSE, tenantVar |-> NULL, pending |-> {}]

\* db.query(text, params) runs one statement on an idle connection of the
\* pool and returns it.  Its effect on the tables is taken as committed at
\* once, also when the connection it ran on had been released inside a
\* transaction by an earlier request.

\* connections db.pool.connect() or db.query() may check out
IdleConns == { c \in Conns : ~conn[c].borrowed }

\* BEGIN: opens a transaction; inside one it only warns
ConnBegin(cn, c) == IF cn[c].inTx THEN cn ELSE [cn EXCEPT ![c].inTx = TRUE]

\* SET LOCAL app.tenant_id: lasts to the end of the current transaction,
\* and has no effect outside a transaction
ConnSetLocal(cn, c, t) == IF cn[c].inTx THEN [cn EXCEPT ![c].tenantVar = t] ELSE cn

\* COMMIT / ROLLBACK: the transaction ends and its SET LOCAL is undone
ConnEnd(cn, c) == [cn EXCEPT ![c].inTx = FALSE, ![c].tenantVar = NULL, ![c].pending = {}]

\* a finally block without client.release(): the connection stays checked out
ReleaseSkipped(cn, c) == cn

\* client.release()
ConnRelease(cn, c) == [cn EXCEPT ![c].borrowed = FALSE]

----------------------------------------------------------------------------
(* Requests *)

\* no statement has run since the tenant was bound
NoStmt == "none"

Idle == [op |-> "none", pc |-> "idle", tenant |-> NULL, user |-> NULL,
         in |-> <<>>, client |-> NULL, handedClean |-> TRUE,
         contactId |-> NULL, newContact |-> NULL, leadId |-> NULL,
         tagId |-> NULL, added |-> <<>>, newTags |-> {}, newLinks |-> {}, upd |-> <<>>, resp |-> 0,
         releases |-> 0, bindConn |-> NULL, stmt |-> NoStmt, fault |-> FALSE]

InFlight(r) == req[r].pc \notin {"idle", "done"}

\* where the request's latest statement ran, relative to its tenant binding:
\* "bound" on the connection and inside the transaction the SET LOCAL ran in,
\* with the variable holding the request's tenant; "stray" anywhere else
StmtKind(q, c) ==
    IF q.bindConn = NULL THEN "none"
    ELSE IF c = q.bindConn /\ conn[c].inTx /\ conn[c].tenantVar = q.tenant
           THEN "bound" ELSE "stray"

----------------------------------------------------------------------------
(* Entity access modules: the statements of models/*.js on the tables *)

\* COALESCE($n, column): an absent field keeps the stored value
Coalesce(new, old) == IF new = "" THEN old ELSE new
CoalesceId(new, old) == IF new = NULL THEN old ELSE new

\* a lookup whose WHERE clause compares the email only
ContactMatchesEmailOnly(tenantId, email, phone) ==
    { c \in contacts : c.tenant_id = tenantId /\ email # "" /\ c.email = email }

\* ContactModel.findByEmailOrPhone: the rows its WHERE clause matches.  A
\* NULL parameter matches no row (email = NULL is never true).  LIMIT 1 with
\* no ORDER BY returns any one of them.
ContactMatches(tenantId, email, phone) ==
    { c \in contacts : /\ c.tenant_id = tenantId
                       /\ \/ (email # "" /\ c.email = email)
                          \/ (phone # "" /\ c.phone = phone) }

\* ContactModel.create: the row inserted
ContactRow(id, tenantId, d) ==
    [id |-> id, tenant_id |-> tenantId,
     first_name |-> d.first_name, last_name |-> d.last_name,
     email |-> d.email, phone |-> d.phone, company_id |-> d.company_id,
     kf_visitor_id |-> d.kf_visitor_id,
     source |-> IF d.source = "" THEN "manual" ELSE d.source]

\* ContactModel.update: the table after the UPDATE (kf_visitor_id and source
\* are no columns of its SET list)
ContactUpdated(id, tenantId, d) ==
    { IF c.id = id /\ c.tenant_id = tenantId
        THEN [c EXCEPT !.first_name = Coalesce(d.first_name, @),
                       !.last_name = Coalesce(d.last_name, @),
                       !.email = Coalesce(d.email, @),
                       !.phone = Coalesce(d.phone, @),
                       !.company_id = CoalesceId(d.company_id, @)]
        ELSE c : c \in contacts }

NoContactUpdate == [first_name |-> "", last_name |-> "", email |-> "",
                    phone |-> "", company_id |-> NULL]

\* LeadModel.create: the row inserted, with the defaults of its destructuring
LeadRow(id, tenantId, d) ==
    [id |-> id, tenant_id |-> tenantId, contact_id |-> d.contact_id,
     owner_user_id |-> d.owner_user_id,
     status |-> IF d.status = "" THEN "new" ELSE d.status,
     stage |-> IF d.stage = "" THEN "lead" ELSE d.stage,
     score |-> d.score,
     source |-> IF d.source = "" THEN "manual" ELSE d.source,
     exhibition_id |-> d.exhibition_id, join_id |-> d.join_id]

\* LeadModel.exists
LeadExists(leadId, tenantId) ==
    \E l \in leads : l.id = leadId /\ l.tenant_id = tenantId

\* UserModel.validateUser
ValidateUser(userId, tenantId) ==
    \E u \in team_users : u.id = userId /\ u.tenant_id = tenantId /\ u.is_active

----------------------------------------------------------------------------
(* Steps shared by the handlers that borrow a connection *)

TxOps == {"webhook", "createLead", "addTags", "createTask", "createInteraction"}

\* a statement rejects: control passes to the handler's catch block
Throw(r) ==
    /\ req' = [req EXCEPT ![r].pc = "rollback", ![r].fault = TRUE]
    /\ UNCHANGED <<store, conn>>

\* the status the catch block of each handler sends
FailureStatus(op) == IF op \in {"createTask", "createInteraction"} THEN 422 ELSE 500
\* the status sent on success
SuccessStatus(op) == IF op \in {"webhook", "addTags"} THEN 200 ELSE 201

\* const client = await db.pool.connect()
Connect(r) ==
    /\ req[r].pc = "connect"
    /\ \E c \in IdleConns :
         /\ conn' = [conn EXCEPT ![c].borrowed = TRUE]
         /\ req' = [req EXCEPT ![r].client = c, ![r].pc = "begin",
                               ![r].handedClean = (~conn[c].inTx /\ conn[c].tenantVar = NULL)]
    /\ UNCHANGED store

\* await client.query('BEGIN')
Begin(r) ==
    /\ req[r].pc = "begin"
    /\ \/ /\ conn' = ConnBegin(conn, req[r].client)
          /\ req' = [req EXCEPT ![r].stmt = StmtKind(req[r], req[r].client),
                                ![r].pc = IF req[r].op = "webhook" THEN "selectTenant"
                                                                    ELSE "setLocal"]
          /\ UNCHANGED store
       \/ Throw(r)

\* the pc a handler continues at once its tenant is bound
AfterSetLocal(q) ==
    CASE q.op = "webhook" ->
           IF q.in.email # "" \/ q.in.phone # "" THEN "findContact" ELSE "createLead"
      [] q.op = "createLead" ->
           IF q.in.email # "" \/ q.in.phone # "" THEN "findContact" ELSE "createLead"
      [] q.op = "addTags" -> "leadExists"
      [] q.op = "createTask" ->
           IF q.in.assigned_to # NULL THEN "validateUser" ELSE "createTask"
      [] OTHER -> "createInteraction"

\* await client.query('SET LOCAL app.tenant_id = ...')
SetLocal(r) ==
    /\ req[r].pc = "setLocal"
    /\ \/ /\ conn' = ConnSetLocal(conn, req[r].client, req[r].tenant)
          /\ req' = [req EXCEPT ![r].bindConn = req[r].client,
                                ![r].stmt = NoStmt,
                                ![r].pc = AfterSetLocal(req[r])]
          /\ UNCHANGED store
       \/ Throw(r)

\* the response and the finally block: sendError/sendSuccess, client.release()
Respond(q, status) ==
    [q EXCEPT !.pc = "done", !.resp = status, !.releases = @ + 1,
              !.stmt = NoStmt, !.bindConn = NULL, !.upd = <<>>]

\* await client.query('COMMIT'), then the success response
Commit(r) ==
    /\ req[r].pc = "commit"
    /\ \/ /\ activity_log' = activity_log \cup conn[req[r].client].pending
          /\ IF req[r].op = "createLead"
               THEN /\ conn' = ConnEnd(conn, req[r].client)
                    /\ req' = [req EXCEPT ![r].pc = "fetchLead",
                                          ![r].stmt = StmtKind(req[r], req[r].client)]
               ELSE /\ conn' = ConnRelease(ConnEnd(conn, req[r].client), req[r].client)
                    /\ req' = [req EXCEPT ![r] = Respond(@, SuccessStatus(req[r].op))]
          /\ UNCHANGED <<user_rows, pipeline_stages, contacts, leads, companies, opportunities, tasks,
                         interactions, tags, lead_tags, nextId>>
       \/ Throw(r)

\* catch: await client.query('ROLLBACK'), the failure response; finally:
\* client.release().  A ROLLBACK that rejects (the connection is lost, and
\* with it the transaction) leaves the catch block before any response is
\* sent; the finally block still runs.
Rollback(r) ==
    /\ req[r].pc = "rollback"
    /\ \/ /\ conn' = ConnRelease(ConnEnd(conn, req[r].client), req[r].client)
          /\ req' = [req EXCEPT ![r] = Respond(@, FailureStatus(req[r].op))]
       \/ /\ conn' = ConnRelease(ConnEnd(conn, req[r].client), req[r].client)
          /\ req' = [req EXCEPT ![r] = [Respond(@, 0) EXCEPT !.fault = TRUE]]
    /\ UNCHANGED store

----------------------------------------------------------------------------
(* Contact resolution and lead creation, shared by handleLeadCaptured and   *)
(* createLead.  These statements go through the models, that is through     *)
(* db.query(): each runs on an idle connection of the pool, on its own.     *)

\* an updateData that takes the visitor's names whatever the contact holds
BackfillAlways(visitor, existing) ==
    [first_name |-> visitor.first_name, last_name |-> visitor.last_name,
     kf_visitor_id |-> visitor.kf_visitor_id]

\* webhook: the fields handleLeadCaptured backfills on a matched contact
Backfill(visitor, existing) ==
    [first_name |-> IF visitor.first_name # "" /\ existing.first_name = ""
                      THEN visitor.first_name ELSE "",
     last_name |-> IF visitor.last_name # "" /\ existing.last_name = ""
                     THEN visitor.last_name ELSE "",
     kf_visitor_id |-> visitor.kf_visitor_id]

\* Object.keys(updateData).length > 0
HasKeys(u) == u.first_name # "" \/ u.last_name # "" \/ u.kf_visitor_id # ""

\* await ContactModel.findByEmailOrPhone(tenant, email, phone)
FindContact(r) ==
    /\ req[r].pc = "findContact"
    /\ \/ \E d \in IdleConns :
            LET q == req[r]
                m == ContactMatches(q.tenant, q.in.email, q.in.phone)
            IN  /\ \/ /\ m = {}
                      /\ req' = [req EXCEPT ![r].pc = "newContact", ![r].stmt = StmtKind(req[r], d)]
                   \/ \E e \in m :
                        LET u == Backfill(q.in, e)
                        IN  req' = [req EXCEPT
                               ![r].contactId = e.id,
                               ![r].stmt = StmtKind(req[r], d),
                               ![r].upd = IF q.op = "webhook" THEN u ELSE <<>>,
                               ![r].pc = IF q.op = "webhook" /\ HasKeys(u)
                                           THEN "updateContact" ELSE "createLead"]
                /\ UNCHANGED <<store, conn>>
       \/ Throw(r)

\* webhook: await ContactModel.update(contactId, tenant_id, updateData)
UpdateContact(r) ==
    /\ req[r].pc = "updateContact"
    /\ \/ \E d \in IdleConns :
            /\ contacts' = ContactUpdated(req[r].contactId, req[r].tenant,
                              [NoContactUpdate EXCEPT !.first_name = req[r].upd.first_name,
                                                      !.last_name = req[r].upd.last_name])
            /\ req' = [req EXCEPT ![r].pc = "createLead", ![r].stmt = StmtKind(req[r], d)]
            /\ UNCHANGED <<user_rows, pipeline_stages, leads, activity_log, companies, opportunities, tasks,
                           interactions, tags, lead_tags, nextId, conn>>
       \/ Throw(r)

\* the contact data each handler passes to ContactModel.create
NewContactData(q) ==
    IF q.op = "webhook"
      THEN [first_name |-> q.in.first_name, last_name |-> q.in.last_name,
            email |-> q.in.email, phone |-> q.in.phone, company_id |-> NULL,
            kf_visitor_id |-> q.in.kf_visitor_id, source |-> "fairex"]
      ELSE [first_name |-> q.in.first_name, last_name |-> q.in.last_name,
            email |-> q.in.email, phone |-> q.in.phone,
            company_id |-> q.in.company_id,
            kf_visitor_id |-> "", source |-> q.in.source]

\* await ContactModel.create(tenant, {...})
NewContact(r) ==
    /\ req[r].pc = "newContact"
    /\ \/ \E d \in IdleConns :
            /\ nextId <= MaxId
            /\ contacts' = contacts \cup
                             {ContactRow(nextId, req[r].tenant, NewContactData(req[r]))}
            /\ nextId' = nextId + 1
            /\ req' = [req EXCEPT ![r].contactId = nextId, ![r].newContact = nextId,
                                  ![r].pc = "createLead", ![r].stmt = StmtKind(req[r], d)]
            /\ UNCHANGED <<user_rows, pipeline_stages, leads, activity_log, companies, opportunities, tasks,
                           interactions, tags, lead_tags, conn>>
       \/ Throw(r)

\* the lead data of a webhook whose leads are marked as entered by hand
NewLeadDataManual(q) ==
    [contact_id |-> q.contactId, owner_user_id |-> NULL, status |-> "new",
     stage |-> "lead", score |-> 0, source |-> "manual",
     exhibition_id |-> q.in.exhibition_id, join_id |-> q.in.join_id]

\* the lead data each handler passes to LeadModel.create
NewLeadData(q) ==
    IF q.op = "webhook"
      THEN [contact_id |-> q.contactId, owner_user_id |-> NULL, status |-> "new",
            stage |-> "lead", score |-> 0, source |-> "fairex",
            exhibition_id |-> q.in.exhibition_id, join_id |-> q.in.join_id]
      ELSE [contact_id |-> q.contactId, owner_user_id |-> q.user, status |-> q.in.status,
            stage |-> "", score |-> 0, source |-> q.in.source,
            exhibition_id |-> NULL, join_id |-> NULL]

\* await LeadModel.create(tenant, leadData)
CreateLeadRow(r) ==
    /\ req[r].pc = "createLead"
    /\ \/ \E d \in IdleConns :
            /\ nextId <= MaxId
            /\ leads' = leads \cup {LeadRow(nextId, req[r].tenant, NewLeadData(req[r]))}
            /\ nextId' = nextId + 1
            /\ req' = [req EXCEPT ![r].leadId = nextId, ![r].stmt = StmtKind(req[r], d),
                                  ![r].pc = IF req[r].op = "webhook" THEN "logActivity"
                                                                      ELSE "commit"]
            /\ UNCHANGED <<user_rows, pipeline_stages, contacts, activity_log, companies, opportunities, tasks,
                           interactions, tags, lead_tags, conn>>
       \/ Throw(r)

----------------------------------------------------------------------------
(* webhookController.handleLeadCaptured *)

WebhookPayloads ==
    [tenant_id : PayloadTenants, email : Emails, phone : Phones,
     first_name : FirstNames, last_name : LastNames, kf_visitor_id : VisitorIds,
     exhibition_id : {7}, join_id : {9}]

\* POST /webhooks/fairex/lead-captured arrives (no credential is required)
StartWebhook(r, payloads) ==
    /\ ~InFlight(r)
    /\ nextId <= MaxId
    /\ \E p \in payloads :
         req' = [req EXCEPT ![r] = [Idle EXCEPT !.op = "webhook", !.pc = "connect",
                                                !.tenant = p.tenant_id, !.in = p]]
    /\ UNCHANGED <<store, conn>>

\* a tenant lookup that finds a row for every id
TenantRowsAny(tenantId) == {tenantId}

\* SELECT id FROM tenants WHERE id = $1: the rows returned
TenantRows(tenantId) == { t \in Tenants : t = tenantId }

\* SELECT id FROM tenants WHERE id = $1, on the borrowed connection; an
\* unknown tenant returns from inside the try block: the finally block
\* releases the connection, no ROLLBACK is issued
SelectTenant(r) ==
    /\ req[r].pc = "selectTenant"
    /\ \/ /\ TenantRows(req[r].in.tenant_id) # {}
          /\ req' = [req EXCEPT ![r].pc = "setLocal", ![r].stmt = StmtKind(req[r], req[r].client)]
          /\ UNCHANGED <<store, conn>>
       \/ /\ TenantRows(req[r].in.tenant_id) = {}
          /\ conn' = ConnRelease(conn, req[r].client)
          /\ req' = [req EXCEPT ![r] = Respond(@, 422)]
          /\ UNCHANGED store
       \/ Throw(r)

\* INSERT INTO activity_log ..., on the borrowed connection: the row is
\* part of its transaction until COMMIT
LogActivity(r) ==
    /\ req[r].pc = "logActivity"
    /\ \/ /\ conn' = [conn EXCEPT ![req[r].client].pending = @ \cup
                        {[tenant_id |-> req[r].tenant, entity |-> "lead",
                          entity_id |-> req[r].leadId, action |-> "created_via_webhook"]}]
          /\ req' = [req EXCEPT ![r].pc = "commit", ![r].stmt = StmtKind(req[r], req[r].client)]
          /\ UNCHANGED store
       \/ Throw(r)

----------------------------------------------------------------------------
(* authenticateToken, and the handlers behind it *)

\* a request bearing a valid credential of user u arrives
StartAuthenticated(r, op, users, inputs) ==
    /\ ~InFlight(r)
    /\ \E u \in users, i \in inputs :
         req' = [req EXCEPT ![r] = [Idle EXCEPT !.op = op, !.pc = "auth",
                                                !.tenant = u.tenant_id, !.user = u.id,
                                                !.in = i]]
    /\ UNCHANGED <<store, conn>>

\* the handler's first statement
FirstPc(op) ==
    CASE op \in TxOps -> "connect"
      [] OTHER -> op

\* authenticateToken: User.findByIdWithTenant, then setTenantContext, whose
\* SET LOCAL goes through db.query() and whose failure is only logged; then
\* next().  A failing user lookup is answered 401.
Authenticate(r) ==
    /\ req[r].pc = "auth"
    /\ \/ \E d \in IdleConns :
            /\ \/ conn' = ConnSetLocal(conn, d, req[r].tenant)
               \/ conn' = conn
            /\ req' = [req EXCEPT ![r].bindConn = d, ![r].stmt = NoStmt,
                                  ![r].pc = FirstPc(req[r].op)]
       \/ /\ req' = [req EXCEPT ![r].pc = "done", ![r].resp = 401, ![r].fault = TRUE]
          /\ conn' = conn
    /\ UNCHANGED store

----------------------------------------------------------------------------
(* leadsController.createLead *)

CreateLeadInputs(companyIds) ==
    [email : Emails, phone : Phones, first_name : {""}, last_name : {""},
     company_id : companyIds, source : {""}, status : {""}]

\* await LeadModel.getCompleteLeadData(lead.id), after COMMIT and still
\* inside the try block
FetchLead(r) ==
    /\ req[r].pc = "fetchLead"
    /\ \/ \E d \in IdleConns :
            /\ conn' = ConnRelease(conn, req[r].client)
            /\ req' = [req EXCEPT ![r] = Respond(@, SuccessStatus("createLead"))]
            /\ UNCHANGED store
       \/ Throw(r)

----------------------------------------------------------------------------
(* leadsController.addTagsToLead and the tag statements of TagModel *)

\* String.prototype.trim on a name given as its sequence of characters
RECURSIVE TrimLeft(_)
TrimLeft(s) == IF s # <<>> /\ Head(s) = " " THEN TrimLeft(Tail(s)) ELSE s
RECURSIVE TrimRight(_)
TrimRight(s) == IF s # <<>> /\ s[Len(s)] = " "
                  THEN TrimRight(SubSeq(s, 1, Len(s) - 1)) ELSE s
Trim(s) == TrimRight(TrimLeft(s))

\* an INSERT INTO tags that never meets a conflict
TagConflictsNone(tenantId, tagName) == {}

\* TagModel.createOrGet: INSERT ... ON CONFLICT (tenant_id, name) DO UPDATE
\* SET name = EXCLUDED.name RETURNING id: the rows the insert conflicts with
TagConflicts(tenantId, tagName) ==
    { t \in tags : t.tenant_id = tenantId /\ t.name = Trim(tagName) }

\* TagModel.linkToLead: INSERT ... ON CONFLICT (lead_id, tag_id) DO NOTHING
LinkToLead(leadId, tagId) ==
    IF BagIn(<<leadId, tagId>>, lead_tags)
      THEN lead_tags
      ELSE lead_tags (+) SetToBag({<<leadId, tagId>>})

\* await LeadModel.exists(id, tenant); an unknown lead returns 404 from
\* inside the try block: the finally block releases the connection, no
\* ROLLBACK is issued
LeadExistsStep(r) ==
    /\ req[r].pc = "leadExists"
    /\ \/ \E d \in IdleConns :
            \/ /\ LeadExists(req[r].in.id, req[r].tenant)
               /\ req' = [req EXCEPT ![r].pc = "createOrGet", ![r].stmt = StmtKind(req[r], d)]
               /\ UNCHANGED <<store, conn>>
            \/ /\ ~LeadExists(req[r].in.id, req[r].tenant)
               /\ conn' = ConnRelease(conn, req[r].client)
               /\ req' = [req EXCEPT ![r] = Respond(@, 404)]
               /\ UNCHANGED store
       \/ Throw(r)

\* for (const tagName of tags): await TagModel.createOrGet(tenant, tagName)
CreateOrGet(r) ==
    /\ req[r].pc = "createOrGet"
    /\ \/ \E d \in IdleConns :
            LET tagName == req[r].in.tags[Len(req[r].added) + 1]
                hit == TagConflicts(req[r].tenant, tagName)
            IN  /\ \/ /\ hit = {}
                      /\ nextId <= MaxId
                      /\ tags' = tags \cup {[id |-> nextId, tenant_id |-> req[r].tenant,
                                             name |-> Trim(tagName)]}
                      /\ nextId' = nextId + 1
                      /\ req' = [req EXCEPT ![r].tagId = nextId, ![r].pc = "linkToLead",
                                            ![r].newTags = @ \cup {nextId},
                                            ![r].stmt = StmtKind(req[r], d)]
                   \/ /\ \E t \in hit :
                           req' = [req EXCEPT ![r].tagId = t.id, ![r].pc = "linkToLead",
                                              ![r].stmt = StmtKind(req[r], d)]
                      /\ UNCHANGED <<user_rows, pipeline_stages, tags, nextId>>
                /\ UNCHANGED <<user_rows, pipeline_stages, contacts, leads, activity_log, companies, opportunities,
                               tasks, interactions, lead_tags, conn>>
       \/ Throw(r)

\* await TagModel.linkToLead(id, tag.id); addedTags.push(tag)
LinkToLeadStep(r) ==
    /\ req[r].pc = "linkToLead"
    /\ \/ \E d \in IdleConns :
            /\ lead_tags' = LinkToLead(req[r].in.id, req[r].tagId)
            /\ req' = [req EXCEPT ![r].added = Append(@, req[r].tagId),
                                  ![r].newLinks =
                                      IF BagIn(<<req[r].in.id, req[r].tagId>>, lead_tags)
                                        THEN @ ELSE @ \cup {<<req[r].in.id, req[r].tagId>>},
                                  ![r].stmt = StmtKind(req[r], d),
                                  ![r].pc = IF Len(req[r].added) + 1 < Len(req[r].in.tags)
                                              THEN "createOrGet" ELSE "commit"]
            /\ UNCHANGED <<user_rows, pipeline_stages, contacts, leads, activity_log, companies, opportunities,
                           tasks, interactions, tags, nextId, conn>>
       \/ Throw(r)

----------------------------------------------------------------------------
(* tasksController.createTask and interactionsController.createInteraction *)

\* await UserModel.validateUser(assigned_to, tenant); an invalid user
\* returns 422 from inside the try block: the finally block releases the
\* connection, no ROLLBACK is issued
ValidateUserStep(r) ==
    /\ req[r].pc = "validateUser"
    /\ \/ \E d \in IdleConns :
            \/ /\ ValidateUser(req[r].in.assigned_to, req[r].tenant)
               /\ req' = [req EXCEPT ![r].pc = "createTask", ![r].stmt = StmtKind(req[r], d)]
               /\ UNCHANGED <<store, conn>>
            \/ /\ ~ValidateUser(req[r].in.assigned_to, req[r].tenant)
               /\ conn' = ConnRelease(conn, req[r].client)
               /\ req' = [req EXCEPT ![r] = Respond(@, 422)]
               /\ UNCHANGED store
       \/ Throw(r)

\* TaskModel.create: the row inserted (status takes the column default)
TaskRow(id, tenantId, d) ==
    [id |-> id, tenant_id |-> tenantId, lead_id |-> d.lead_id,
     contact_id |-> d.contact_id, assigned_to |-> d.assigned_to, status |-> "open"]

\* await TaskModel.create(tenant, {...taskData, created_by})
CreateTaskRow(r) ==
    /\ req[r].pc = "createTask"
    /\ \/ \E d \in IdleConns :
            /\ nextId <= MaxId
            /\ tasks' = tasks \cup {TaskRow(nextId, req[r].tenant, req[r].in)}
            /\ nextId' = nextId + 1
            /\ req' = [req EXCEPT ![r].pc = "commit", ![r].stmt = StmtKind(req[r], d)]
            /\ UNCHANGED <<user_rows, pipeline_stages, contacts, leads, activity_log, companies, opportunities,
                           interactions, tags, lead_tags, conn>>
       \/ Throw(r)

\* InteractionModel.create: the row inserted
InteractionRow(id, tenantId, d, createdBy) ==
    [id |-> id, tenant_id |-> tenantId, lead_id |-> d.lead_id,
     contact_id |-> d.contact_id, created_by |-> createdBy]

\* await InteractionModel.create(tenant, {...interactionData, created_by})
CreateInteractionRow(r) ==
    /\ req[r].pc = "createInteraction"
    /\ \/ \E d \in IdleConns :
            /\ nextId <= MaxId
            /\ interactions' = interactions \cup
                   {InteractionRow(nextId, req[r].tenant, req[r].in, req[r].user)}
            /\ nextId' = nextId + 1
            /\ req' = [req EXCEPT ![r].pc = "commit", ![r].stmt = StmtKind(req[r], d)]
            /\ UNCHANGED <<user_rows, pipeline_stages, contacts, leads, activity_log, companies, opportunities,
                           tasks, tags, lead_tags, conn>>
       \/ Throw(r)

----------------------------------------------------------------------------
(* Initial state *)

Init ==
    /\ contacts = {} /\ leads = {} /\ activity_log = {} /\ companies = {}
    /\ opportunities = {} /\ tasks = {} /\ interactions = {} /\ tags = {}
    /\ lead_tags = EmptyBag
    /\ user_rows = team_users /\ pipeline_stages = {}
    /\ nextId = FirstRowId
    /\ conn = [c \in Conns |-> FreshConn]
    /\ req = [r \in Reqs |-> Idle]

\* a contact created earlier in tenant t
SeedContact(id, t, email, phone) ==
    ContactRow(id, t, [first_name |-> "", last_name |-> "", email |-> email,
                       phone |-> phone, company_id |-> NULL, kf_visitor_id |-> "",
                       source |-> ""])

\* a tag created earlier in tenant t
SeedTag(id, t, name) == [id |-> id, tenant_id |-> t, name |-> name]

\* a lead created earlier by user t of tenant t, without a contact
SeedLead(id, t) ==
    LeadRow(id, t, [contact_id |-> NULL, owner_user_id |-> t, status |-> "",
                    stage |-> "", score |-> 0, source |-> "",
                    exhibition_id |-> NULL, join_id |-> NULL])

----------------------------------------------------------------------------
(* The five handlers that borrow a connection, one request at a time *)

TxPayloads ==
    [tenant_id : {1, 3}, email : {"a@x.com", "b@x.com"}, phone : {""},
     first_name : {"Jo"}, last_name : LastNames, kf_visitor_id : {""},
     exhibition_id : {7}, join_id : {9}]

TxUsers == { u \in team_users : u.tenant_id = 1 }

RowIds == FirstRowId .. MaxId

TxLeadInputs ==
    [email : {"a@x.com", "b@x.com"}, phone : {""}, first_name : {""}, last_name : {""},
     company_id : {NULL}, source : {""}, status : {""}]

TxTagInputs == [id : SeedIds, tags : { << <<"c">> >> }]

TxTaskInputs == [lead_id : {NULL}, contact_id : {NULL}, assigned_to : UserIds]

TxInteractionInputs == [lead_id : {NULL}, contact_id : {NULL}]

NextTx ==
    \/ StartWebhook(1, TxPayloads)
    \/ StartAuthenticated(1, "createLead", TxUsers, TxLeadInputs)
    \/ StartAuthenticated(1, "addTags", TxUsers, TxTagInputs)
    \/ StartAuthenticated(1, "createTask", TxUsers, TxTaskInputs)
    \/ StartAuthenticated(1, "createInteraction", TxUsers, TxInteractionInputs)
    \/ Authenticate(1)
    \/ Connect(1) \/ Begin(1) \/ SelectTenant(1) \/ SetLocal(1)
    \/ FindContact(1) \/ UpdateContact(1) \/ NewContact(1) \/ CreateLeadRow(1)
    \/ LogActivity(1) \/ FetchLead(1)
    \/ LeadExistsStep(1) \/ CreateOrGet(1) \/ LinkToLeadStep(1)
    \/ ValidateUserStep(1) \/ CreateTaskRow(1) \/ CreateInteractionRow(1)
    \/ Commit(1) \/ Rollback(1)

\* tenant 1 owns a lead, a contact and a tag
InitTx ==
    /\ contacts = {SeedContact(4, 1, "a@x.com", "")} /\ leads = {SeedLead(3, 1)}
    /\ tags = {SeedTag(FirstRowId, 1, <<"h">>)}
    /\ activity_log = {} /\ companies = {}
    /\ opportunities = {} /\ tasks = {} /\ interactions = {}
    /\ lead_tags = EmptyBag
    /\ user_rows = team_users /\ pipeline_stages = {}
    /\ nextId = FirstRowId + 1
    /\ conn = [c \in Conns |-> FreshConn]
    /\ req = [r \in Reqs |-> Idle]

SpecTx == InitTx /\ [][NextTx]_vars

----------------------------------------------------------------------------
(* Properties of the handlers that borrow a connection *)

\* the request was answered with a failure status
Failed(q) == q.pc = "done" /\ q.resp \notin {0, 200, 201}

\* the rows a request wrote that are in the store
WrittenRows(q) ==
    { c.id : c \in { x \in contacts : x.id = q.newContact } }
      \cup { l.id : l \in { x \in leads : x.id = q.leadId } }
      \cup { t.id : t \in { x \in tags : x.id \in q.newTags } }
      \cup { k \in q.newLinks : BagIn(k, lead_tags) }

\* a lead handleLeadCaptured created: source fairex and no owner (createLead
\* always sets the owner)
WebhookLead(l) == l.source = "fairex" /\ l.owner_user_id = NULL

Logged(l) ==
    \E a \in activity_log : a.entity = "lead" /\ a.entity_id = l.id
                              /\ a.action = "created_via_webhook"

\* C1: webhook atomicity.  Once handleLeadCaptured has answered with a
\* failure, no contact and no lead it wrote is in the store; and in every
\* state a webhook-created lead is in the store iff its activity-log row is.
C1_WebhookAtomicity ==
    /\ \A r \in Reqs :
          (req[r].op = "webhook" /\ Failed(req[r])) => WrittenRows(req[r]) = {}
    /\ \A l \in leads : WebhookLead(l) => Logged(l)
    /\ \A a \in activity_log : \E l \in leads : l.id = a.entity_id /\ WebhookLead(l)

\* C7: createLead and addTagsToLead are all-or-nothing.  When either has
\* answered with a failure, none of the rows it wrote is in the store.
C7_AllOrNothing ==
    \A r \in Reqs :
       (req[r].op \in {"createLead", "addTags"} /\ Failed(req[r]))
          => WrittenRows(req[r]) = {}

\* C4: the tenant binding covers the unit of work.  Every statement a request
\* executes after its binding step runs on the connection, and inside the
\* transaction, the tenant variable was bound in, the variable holding the
\* request's tenant.
C4_BindingCoversWork ==
    \A r \in Reqs : req[r].stmt # "stray"

\* C5: the tenant binding never leaks across requests.  A connection handed
\* to a request by the pool carries no open transaction and no tenant
\* binding of an earlier request.
C5_NoLeakAcrossRequests ==
    \A r \in Reqs : req[r].client # NULL => req[r].handedClean

\* the connections checked out of the pool
Borrowed == { c \in Conns : conn[c].borrowed }

\* C6: scoped connection acquisition.  A handler that borrowed a connection
\* has released it exactly once when it is done, on every exit path, and not
\* before; no connection is borrowed when no request is in flight.
C6_ReleasedExactlyOnce ==
    /\ \A r \in Reqs :
          /\ req[r].releases = IF req[r].pc = "done" /\ req[r].client # NULL THEN 1 ELSE 0
          /\ (req[r].pc = "done" /\ req[r].client # NULL) => req[r].client \notin Borrowed
    /\ (\A r \in Reqs : ~InFlight(r)) => Borrowed = {}

\* C6 witness: a handler is done after its ROLLBACK rejected, on a pool in
\* which an earlier early return left a transaction open, and nothing is
\* borrowed
C6_Witness ==
    /\ req[1].pc = "done" /\ req[1].client # NULL /\ req[1].resp = 0
    /\ req[1].releases = 1
    /\ \E c \in Conns : conn[c].inTx
    /\ Borrowed = {}

----------------------------------------------------------------------------
(* By-id reads, updates and deletes of the entity access modules *)

\* a WHERE clause that leaves out AND tenant_id = $2
MatchesAnyTenant(x, id, tenantId) == x.id = id

\* WHERE id = $1 AND tenant_id = $2
Matches(x, id, tenantId) == x.id = id /\ x.tenant_id = tenantId

\* SELECT ... WHERE id = $1 AND tenant_id = $2: rows[0] || null
FindById(table, id, tenantId) == { x \in table : Matches(x, id, tenantId) }

\* a DELETE whose WHERE clause names the id alone
DeleteByIdOnly(table, id, tenantId) == { x \in table : x.id # id }

\* DELETE FROM ... WHERE id = $1 AND tenant_id = $2
DeleteById(table, id, tenantId) == { x \in table : ~Matches(x, id, tenantId) }

\* LeadModel.update: SET <each key of updates> = <its value>
SetFields(x, updates) ==
    [f \in DOMAIN x |-> IF f \in DOMAIN updates THEN updates[f] ELSE x[f]]
LeadUpdated(id, tenantId, updates) ==
    { IF Matches(x, id, tenantId) THEN SetFields(x, updates) ELSE x : x \in leads }

\* CompanyModel.update, TagModel.update, OpportunityModel.update:
\* SET name = COALESCE($n, name)
NameUpdated(table, id, tenantId, name) ==
    { IF Matches(x, id, tenantId) THEN [x EXCEPT !.name = Coalesce(name, @)] ELSE x
        : x \in table }

\* TaskModel.updateStatus: SET status = $3
StatusUpdated(id, tenantId, status) ==
    { IF Matches(x, id, tenantId) THEN [x EXCEPT !.status = status] ELSE x : x \in tasks }

\* CompanyModel.create, OpportunityModel.create: the rows inserted
CompanyRow(id, tenantId, d) == [id |-> id, tenant_id |-> tenantId, name |-> d.name]
OpportunityRow(id, d) ==
    [id |-> id, tenant_id |-> d.tenant_id, name |-> d.name, lead_id |-> d.lead_id,
     contact_id |-> d.contact_id, company_id |-> d.company_id, status |-> "open"]

Entities == {"lead", "contact", "company", "opportunity", "task", "interaction", "tag"}

TableOf(e) ==
    CASE e = "lead" -> leads
      [] e = "contact" -> contacts
      [] e = "company" -> companies
      [] e = "opportunity" -> opportunities
      [] e = "task" -> tasks
      [] e = "interaction" -> interactions
      [] OTHER -> tags

\* the answer of a by-id call of tenant t: what was asked, the rows that
\* carried the id before the call, and whether the call found its row
ById(r, e, kind, t, id, found) ==
    req' = [req EXCEPT ![r] =
              [Idle EXCEPT !.op = "byId", !.pc = "done", !.tenant = t,
                           !.in = [entity |-> e, kind |-> kind, id |-> id],
                           !.upd = { x \in TableOf(e) : x.id = id },
                           !.resp = IF found THEN 200 ELSE 404]]

\* LeadModel.findByIdWithDetails, LeadModel.exists
LeadFindById(r) ==
    /\ ~InFlight(r)
    /\ \E t \in Tenants, id \in SeedIds :
         ById(r, "lead", "read", t, id, FindById(leads, id, t) # {})
    /\ UNCHANGED <<store, conn>>

\* LeadModel.update
LeadUpdate(r) ==
    /\ ~InFlight(r)
    /\ \E t \in Tenants, id \in SeedIds :
         /\ ById(r, "lead", "update", t, id, FindById(leads, id, t) # {})
         /\ leads' = LeadUpdated(id, t, [status |-> "won"])
    /\ UNCHANGED <<user_rows, pipeline_stages, contacts, activity_log, companies, opportunities, tasks,
                    interactions, tags, lead_tags, nextId, conn>>

\* LeadModel.delete
LeadDelete(r) ==
    /\ ~InFlight(r)
    /\ \E t \in Tenants, id \in SeedIds :
         /\ ById(r, "lead", "delete", t, id, FindById(leads, id, t) # {})
         /\ leads' = DeleteById(leads, id, t)
    /\ UNCHANGED <<user_rows, pipeline_stages, contacts, activity_log, companies, opportunities, tasks,
                    interactions, tags, lead_tags, nextId, conn>>

\* ContactModel.findById
ContactFindById(r) ==
    /\ ~InFlight(r)
    /\ \E t \in Tenants, id \in SeedIds :
         ById(r, "contact", "read", t, id, FindById(contacts, id, t) # {})
    /\ UNCHANGED <<store, conn>>

\* ContactModel.update
ContactUpdate(r) ==
    /\ ~InFlight(r)
    /\ \E t \in Tenants, id \in SeedIds :
         /\ ById(r, "contact", "update", t, id, FindById(contacts, id, t) # {})
         /\ contacts' = ContactUpdated(id, t, [NoContactUpdate EXCEPT !.first_name = "Jo"])
    /\ UNCHANGED <<user_rows, pipeline_stages, leads, activity_log, companies, opportunities, tasks,
                    interactions, tags, lead_tags, nextId, conn>>

\* ContactModel.delete
ContactDelete(r) ==
    /\ ~InFlight(r)
    /\ \E t \in Tenants, id \in SeedIds :
         /\ ById(r, "contact", "delete", t, id, FindById(contacts, id, t) # {})
         /\ contacts' = DeleteById(contacts, id, t)
    /\ UNCHANGED <<user_rows, pipeline_stages, leads, activity_log, companies, opportunities, tasks,
                    interactions, tags, lead_tags, nextId, conn>>

\* CompanyModel.findById
CompanyFindById(r) ==
    /\ ~InFlight(r)
    /\ \E t \in Tenants, id \in SeedIds :
         ById(r, "company", "read", t, id, FindById(companies, id, t) # {})
    /\ UNCHANGED <<store, conn>>

\* CompanyModel.update
CompanyUpdate(r) ==
    /\ ~InFlight(r)
    /\ \E t \in Tenants, id \in SeedIds, name \in {"", "new"} :
         /\ ById(r, "company", "update", t, id, FindById(companies, id, t) # {})
         /\ companies' = NameUpdated(companies, id, t, name)
    /\ UNCHANGED <<user_rows, pipeline_stages, contacts, leads, activity_log, opportunities, tasks,
                    interactions, tags, lead_tags, nextId, conn>>

\* CompanyModel.delete
CompanyDelete(r) ==
    /\ ~InFlight(r)
    /\ \E t \in Tenants, id \in SeedIds :
         /\ ById(r, "company", "delete", t, id, FindById(companies, id, t) # {})
         /\ companies' = DeleteById(companies, id, t)
    /\ UNCHANGED <<user_rows, pipeline_stages, contacts, leads, activity_log, opportunities, tasks,
                    interactions, tags, lead_tags, nextId, conn>>

\* OpportunityModel.findById
OpportunityFindById(r) ==
    /\ ~InFlight(r)
    /\ \E t \in Tenants, id \in SeedIds :
         ById(r, "opportunity", "read", t, id, FindById(opportunities, id, t) # {})
    /\ UNCHANGED <<store, conn>>

\* OpportunityModel.update
OpportunityUpdate(r) ==
    /\ ~InFlight(r)
    /\ \E t \in Tenants, id \in SeedIds, name \in {"", "new"} :
         /\ ById(r, "opportunity", "update", t, id, FindById(opportunities, id, t) # {})
         /\ opportunities' = NameUpdated(opportunities, id, t, name)
    /\ UNCHANGED <<user_rows, pipeline_stages, contacts, leads, activity_log, companies, tasks,
                    interactions, tags, lead_tags, nextId, conn>>

\* TaskModel.exists, TaskModel.findByIdWithDetails
TaskFindById(r) ==
    /\ ~InFlight(r)
    /\ \E t \in Tenants, id \in SeedIds :
         ById(r, "task", "read", t, id, FindById(tasks, id, t) # {})
    /\ UNCHANGED <<store, conn>>

\* TaskModel.updateStatus
TaskUpdateStatus(r) ==
    /\ ~InFlight(r)
    /\ \E t \in Tenants, id \in SeedIds :
         /\ ById(r, "task", "update", t, id, FindById(tasks, id, t) # {})
         /\ tasks' = StatusUpdated(id, t, "done")
    /\ UNCHANGED <<user_rows, pipeline_stages, contacts, leads, activity_log, companies, opportunities,
                    interactions, tags, lead_tags, nextId, conn>>

\* InteractionModel.findByIdWithDetails
InteractionFindById(r) ==
    /\ ~InFlight(r)
    /\ \E t \in Tenants, id \in SeedIds :
         ById(r, "interaction", "read", t, id, FindById(interactions, id, t) # {})
    /\ UNCHANGED <<store, conn>>

\* TagModel.findById
TagFindById(r) ==
    /\ ~InFlight(r)
    /\ \E t \in Tenants, id \in SeedIds :
         ById(r, "tag", "read", t, id, FindById(tags, id, t) # {})
    /\ UNCHANGED <<store, conn>>

\* TagModel.update
TagUpdate(r) ==
    /\ ~InFlight(r)
    /\ \E t \in Tenants, id \in SeedIds, name \in {"", <<"n">>} :
         /\ ById(r, "tag", "update", t, id, FindById(tags, id, t) # {})
         /\ tags' = NameUpdated(tags, id, t, name)
    /\ UNCHANGED <<user_rows, pipeline_stages, contacts, leads, activity_log, companies, opportunities,
                    tasks, interactions, lead_tags, nextId, conn>>

\* TagModel.delete
TagDelete(r) ==
    /\ ~InFlight(r)
    /\ \E t \in Tenants, id \in SeedIds :
         /\ ById(r, "tag", "delete", t, id, FindById(tags, id, t) # {})
         /\ tags' = DeleteById(tags, id, t)
    /\ UNCHANGED <<user_rows, pipeline_stages, contacts, leads, activity_log, companies, opportunities,
                    tasks, interactions, lead_tags, nextId, conn>>

\* rows created earlier in tenant t
SeedCompany(id, t) == CompanyRow(id, t, [name |-> "acme"])
SeedOpportunity(id, t) ==
    OpportunityRow(id, [tenant_id |-> t, name |-> "deal", lead_id |-> NULL,
                        contact_id |-> NULL, company_id |-> NULL])
SeedTask(id, t) == TaskRow(id, t, [lead_id |-> NULL, contact_id |-> NULL, assigned_to |-> t])
SeedInteraction(id, t) == InteractionRow(id, t, [lead_id |-> NULL, contact_id |-> NULL], t)

\* each tenant owns one row of one of the entities: row 3 is tenant 1's,
\* row 4 tenant 2's
InitById ==
    /\ \E e \in Entities :
         /\ leads = (IF e = "lead" THEN {SeedLead(3, 1), SeedLead(4, 2)} ELSE {})
         /\ contacts = (IF e = "contact"
                          THEN {SeedContact(3, 1, "a@x.com", ""), SeedContact(4, 2, "a@x.com", "")}
                          ELSE {})
         /\ companies = (IF e = "company" THEN {SeedCompany(3, 1), SeedCompany(4, 2)} ELSE {})
         /\ opportunities = (IF e = "opportunity"
                               THEN {SeedOpportunity(3, 1), SeedOpportunity(4, 2)} ELSE {})
         /\ tasks = (IF e = "task" THEN {SeedTask(3, 1), SeedTask(4, 2)} ELSE {})
         /\ interactions = (IF e = "interaction"
                              THEN {SeedInteraction(3, 1), SeedInteraction(4, 2)} ELSE {})
         /\ tags = (IF e = "tag" THEN {SeedTag(3, 1, <<"h">>), SeedTag(4, 2, <<"h">>)} ELSE {})
    /\ activity_log = {}
    /\ lead_tags = EmptyBag
    /\ user_rows = team_users /\ pipeline_stages = {}
    /\ nextId = FirstRowId
    /\ conn = [c \in Conns |-> FreshConn]
    /\ req = [r \in Reqs |-> Idle]

NextById ==
    \/ LeadFindById(1) \/ LeadUpdate(1) \/ LeadDelete(1)
    \/ ContactFindById(1) \/ ContactUpdate(1) \/ ContactDelete(1)
    \/ CompanyFindById(1) \/ CompanyUpdate(1) \/ CompanyDelete(1)
    \/ OpportunityFindById(1) \/ OpportunityUpdate(1)
    \/ TaskFindById(1) \/ TaskUpdateStatus(1)
    \/ InteractionFindById(1)
    \/ TagFindById(1) \/ TagUpdate(1) \/ TagDelete(1)

SpecById == InitById /\ [][NextById]_vars

\* C2: tenant isolation by id.  A by-id read, update or delete issued for
\* one tenant with the id of a row another tenant owns answers not-found
\* and leaves that row as it was, whatever by-id calls came before.
C2_TenantIsolationById ==
    \A r \in Reqs :
       req[r].op = "byId" =>
          \A x \in req[r].upd :
             x.tenant_id # req[r].tenant =>
                req[r].resp = 404 /\ x \in TableOf(req[r].in.entity)

\* C2 witness: tenant 1 asked to delete, by its id, the row tenant 2 owns,
\* after tenant 2 had updated it; the answer was not-found and the row is
\* in place
C2_Witness ==
    /\ req[1].op = "byId" /\ req[1].tenant = 1
    /\ req[1].in.entity = "company" /\ req[1].in.kind = "delete"
    /\ req[1].resp = 404
    /\ \E x \in req[1].upd : x.tenant_id = 2 /\ x.name = "new" /\ x \in companies

----------------------------------------------------------------------------
(* opportunityController.createOpportunity, and the references rows hold *)

\* await OpportunityModel.create({tenant_id, name, lead_id, ...}): the ids
\* of the request body are inserted as they come; a rejected insert is
\* answered 422
CreateOpportunity(r) ==
    /\ req[r].pc = "createOpportunity"
    /\ \/ \E d \in IdleConns :
            /\ nextId <= MaxId
            /\ opportunities' = opportunities \cup
                  {OpportunityRow(nextId, [tenant_id |-> req[r].tenant, name |-> req[r].in.name,
                                           lead_id |-> req[r].in.lead_id,
                                           contact_id |-> req[r].in.contact_id,
                                           company_id |-> req[r].in.company_id])}
            /\ nextId' = nextId + 1
            /\ req' = [req EXCEPT ![r].pc = "done", ![r].resp = 201, ![r].leadId = nextId,
                                  ![r].stmt = NoStmt, ![r].bindConn = NULL]
            /\ UNCHANGED <<user_rows, pipeline_stages, contacts, leads, activity_log, companies, tasks, interactions,
                           tags, lead_tags, conn>>
       \/ /\ req' = [req EXCEPT ![r].pc = "done", ![r].resp = 422, ![r].fault = TRUE,
                                ![r].stmt = NoStmt, ![r].bindConn = NULL]
          /\ UNCHANGED <<store, conn>>

RefOppInputs ==
    [name : {"deal"}, lead_id : {NULL} \cup SeedIds, contact_id : {NULL},
     company_id : {NULL}]

\* each tenant owns one lead: lead 3 is tenant 1's, lead 4 tenant 2's
InitRefs ==
    /\ leads = {SeedLead(3, 1), SeedLead(4, 2)}
    /\ contacts = {} /\ activity_log = {} /\ companies = {}
    /\ opportunities = {} /\ tasks = {} /\ interactions = {} /\ tags = {}
    /\ lead_tags = EmptyBag
    /\ user_rows = team_users /\ pipeline_stages = {}
    /\ nextId = FirstRowId
    /\ conn = [c \in Conns |-> FreshConn]
    /\ req = [r \in Reqs |-> Idle]

NextRefs ==
    \/ StartAuthenticated(1, "createOpportunity", team_users, RefOppInputs)
    \/ Authenticate(1)
    \/ CreateOpportunity(1)

SpecRefs == InitRefs /\ [][NextRefs]_vars

\* the row of the table a reference points to, if any, is of tenant t
SameTenant(ref, table, t) == \A x \in table : x.id = ref => x.tenant_id = t

\* C3: no cross-tenant references.  Every reference a stored row holds
\* (opportunity to lead, contact, company; task to lead, contact, assignee;
\* interaction to lead, contact; lead to contact, owner; contact to company)
\* points to a row of the tenant that owns the referring row.
C3_NoCrossTenantReferences ==
    /\ \A o \in opportunities :
          /\ SameTenant(o.lead_id, leads, o.tenant_id)
          /\ SameTenant(o.contact_id, contacts, o.tenant_id)
          /\ SameTenant(o.company_id, companies, o.tenant_id)
    /\ \A t \in tasks :
          /\ SameTenant(t.lead_id, leads, t.tenant_id)
          /\ SameTenant(t.contact_id, contacts, t.tenant_id)
          /\ SameTenant(t.assigned_to, team_users, t.tenant_id)
    /\ \A i \in interactions :
          /\ SameTenant(i.lead_id, leads, i.tenant_id)
          /\ SameTenant(i.contact_id, contacts, i.tenant_id)
    /\ \A l \in leads :
          /\ SameTenant(l.contact_id, contacts, l.tenant_id)
          /\ SameTenant(l.owner_user_id, team_users, l.tenant_id)
    /\ \A c \in contacts : SameTenant(c.company_id, companies, c.tenant_id)

----------------------------------------------------------------------------
(* contactsController.createContact *)

\* a statement of createContact rejects: its catch block answers 422
ContactFailed(r) ==
    /\ req' = [req EXCEPT ![r].pc = "done", ![r].resp = 422, ![r].fault = TRUE,
                          ![r].stmt = NoStmt, ![r].bindConn = NULL]
    /\ UNCHANGED <<store, conn>>

\* if (contactData.company_id): await CompanyModel.findById(company_id, tenant)
CheckCompany(r) ==
    /\ req[r].pc = "createContact"
    /\ \/ /\ \/ req[r].in.company_id = NULL
             \/ \E d \in IdleConns :
                   FindById(companies, req[r].in.company_id, req[r].tenant) # {}
          /\ req' = [req EXCEPT ![r].pc = IF req[r].in.email # "" \/ req[r].in.phone # ""
                                            THEN "findExisting" ELSE "insertContact"]
          /\ UNCHANGED <<store, conn>>
       \/ /\ req[r].in.company_id # NULL
          /\ \E d \in IdleConns :
                FindById(companies, req[r].in.company_id, req[r].tenant) = {}
          /\ req' = [req EXCEPT ![r].pc = "done", ![r].resp = 422,
                                ![r].stmt = NoStmt, ![r].bindConn = NULL]
          /\ UNCHANGED <<store, conn>>
       \/ /\ req[r].in.company_id # NULL
          /\ ContactFailed(r)

\* if (email || phone): await ContactModel.findByEmailOrPhone(...); an
\* existing contact is answered 422
FindExisting(r) ==
    /\ req[r].pc = "findExisting"
    /\ \/ \E d \in IdleConns :
            LET m == ContactMatches(req[r].tenant, req[r].in.email, req[r].in.phone)
            IN  /\ \/ /\ m = {}
                      /\ req' = [req EXCEPT ![r].pc = "insertContact"]
                   \/ \E e \in m :
                        req' = [req EXCEPT ![r].pc = "done", ![r].resp = 422,
                                           ![r].contactId = e.id,
                                           ![r].stmt = NoStmt, ![r].bindConn = NULL]
                /\ UNCHANGED <<store, conn>>
       \/ ContactFailed(r)

\* await ContactModel.create(tenant, {...contactData, source})
InsertContact(r) ==
    /\ req[r].pc = "insertContact"
    /\ \/ \E d \in IdleConns :
            /\ nextId <= MaxId
            /\ contacts' = contacts \cup
                  {ContactRow(nextId, req[r].tenant,
                       [first_name |-> req[r].in.first_name, last_name |-> "",
                        email |-> req[r].in.email, phone |-> req[r].in.phone,
                        company_id |-> req[r].in.company_id, kf_visitor_id |-> "",
                        source |-> "manual"])}
            /\ nextId' = nextId + 1
            /\ req' = [req EXCEPT ![r].pc = "fetchContact", ![r].newContact = nextId]
            /\ UNCHANGED <<user_rows, pipeline_stages, leads, activity_log, companies, opportunities, tasks,
                           interactions, tags, lead_tags, conn>>
       \/ ContactFailed(r)

\* await ContactModel.findById(contact.id, tenant), then 201
FetchContact(r) ==
    /\ req[r].pc = "fetchContact"
    /\ \/ /\ \E d \in IdleConns :
               FindById(contacts, req[r].newContact, req[r].tenant) # {}
          /\ req' = [req EXCEPT ![r].pc = "done", ![r].resp = 201,
                                ![r].stmt = NoStmt, ![r].bindConn = NULL]
          /\ UNCHANGED <<store, conn>>
       \/ ContactFailed(r)

ContactInputs ==
    [email : Emails, phone : Phones, first_name : {"Jo"}, company_id : {NULL, 3}]

\* tenant 1 owns a company
InitContact ==
    /\ companies = {SeedCompany(3, 1)}
    /\ contacts = {} /\ leads = {} /\ activity_log = {}
    /\ opportunities = {} /\ tasks = {} /\ interactions = {} /\ tags = {}
    /\ lead_tags = EmptyBag
    /\ user_rows = team_users /\ pipeline_stages = {}
    /\ nextId = FirstRowId
    /\ conn = [c \in Conns |-> FreshConn]
    /\ req = [r \in Reqs |-> Idle]

\* createContact requests of both tenants, one at a time
NextContact ==
    \/ StartAuthenticated(1, "createContact", team_users, ContactInputs)
    \/ Authenticate(1)
    \/ CheckCompany(1) \/ FindExisting(1) \/ InsertContact(1) \/ FetchContact(1)

SpecContact == InitContact /\ [][NextContact]_vars

\* the contacts of a tenant, other than one, that carry the email or the phone
Conflicting(tenantId, email, phone, exceptId) ==
    { c \in contacts : /\ c.tenant_id = tenantId /\ c.id # exceptId
                       /\ \/ (email # "" /\ c.email = email)
                          \/ (phone # "" /\ c.phone = phone) }

\* C8: sequential contact dedup.  With createContact requests handled one at
\* a time, a request whose email or phone is that of a contact of its tenant
\* is answered 422 and creates no row; no two contacts of a tenant share an
\* email or a phone; and a request that fails nowhere and conflicts with no
\* contact of its own tenant is answered 201 and its contact stored, whatever
\* other tenants hold.
C8_SequentialContactDedup ==
    /\ \A c \in contacts : Conflicting(c.tenant_id, c.email, c.phone, c.id) = {}
    /\ \A r \in Reqs :
          (req[r].op = "createContact" /\ req[r].pc = "done" /\ req[r].resp # 401) =>
             LET q == req[r]
                 m == Conflicting(q.tenant, q.in.email, q.in.phone, q.newContact)
                 companyOk == q.in.company_id = NULL
                                \/ FindById(companies, q.in.company_id, q.tenant) # {}
             IN  /\ m # {} => q.resp = 422 /\ q.newContact = NULL
                 /\ (m = {} /\ ~q.fault /\ companyOk) =>
                       /\ q.resp = 201
                       /\ \E c \in contacts : c.id = q.newContact /\ c.tenant_id = q.tenant
                                                /\ c.email = q.in.email /\ c.phone = q.in.phone

\* C8 witness: both tenants hold a contact with email a@x.com, and a further
\* request with that email has just been answered 422 without a fault
C8_Witness ==
    /\ req[1].op = "createContact" /\ req[1].pc = "done"
    /\ req[1].resp = 422 /\ ~req[1].fault /\ req[1].contactId # NULL
    /\ req[1].in.email = "a@x.com"
    /\ \E c1, c2 \in contacts :
          c1.tenant_id = 1 /\ c2.tenant_id = 2 /\ c1.email = "a@x.com" /\ c2.email = "a@x.com"
    /\ Cardinality(contacts) = 2

----------------------------------------------------------------------------
(* Two lead-ingestion calls, the second arriving after the first is done *)

IngestPayloads ==
    [tenant_id : {1}, email : {"a@x.com"}, phone : Phones,
     first_name : {"Jo"}, last_name : LastNames, kf_visitor_id : {""},
     exhibition_id : {7}, join_id : {9}]

IngestLeadInputs ==
    [email : {"a@x.com"}, phone : Phones, first_name : {""}, last_name : {""},
     company_id : {NULL}, source : {""}, status : {""}]

\* tenant 1 holds two contacts: one known by its email, one by its phone
InitIngest ==
    /\ contacts = {SeedContact(3, 1, "a@x.com", ""), SeedContact(4, 1, "b@x.com", "555")}
    /\ leads = {} /\ activity_log = {} /\ companies = {}
    /\ opportunities = {} /\ tasks = {} /\ interactions = {} /\ tags = {}
    /\ lead_tags = EmptyBag
    /\ user_rows = team_users /\ pipeline_stages = {}
    /\ nextId = FirstRowId
    /\ conn = [c \in Conns |-> FreshConn]
    /\ req = [r \in Reqs |-> Idle]

\* the first call arrives
FirstCall ==
    /\ req[1].pc = "idle" /\ req[2].pc = "idle"
    /\ \/ StartWebhook(1, IngestPayloads)
       \/ StartAuthenticated(1, "createLead", TxUsers, IngestLeadInputs)

\* the second call arrives once the first has been answered
SecondCall ==
    /\ req[1].pc = "done" /\ req[2].pc = "idle"
    /\ \/ StartWebhook(2, IngestPayloads)
       \/ StartAuthenticated(2, "createLead", TxUsers, IngestLeadInputs)

NextIngest ==
    \/ FirstCall
    \/ SecondCall
    \/ \E r \in Reqs :
          \/ Authenticate(r)
          \/ Connect(r) \/ Begin(r) \/ SelectTenant(r) \/ SetLocal(r)
          \/ FindContact(r) \/ UpdateContact(r) \/ CreateLeadRow(r)
          \/ LogActivity(r) \/ FetchLead(r)
          \/ Commit(r) \/ Rollback(r)

SpecIngest == InitIngest /\ [][NextIngest]_vars

\* the call was answered with success
Succeeded(q) == q.pc = "done" /\ q.resp \in {200, 201}

\* C9: ingestion reuses contacts.  Two lead-ingestion calls of one tenant,
\* one after the other, that carry the same email and both succeed, resolve
\* to the same contact id, create at most one contact row between them, and
\* create two distinct leads that both reference that contact.
C9_IngestionReusesContact ==
    ( /\ Succeeded(req[1]) /\ Succeeded(req[2])
      /\ req[1].tenant = req[2].tenant
      /\ req[1].in.email # "" /\ req[1].in.email = req[2].in.email )
    => /\ req[1].contactId = req[2].contactId
       /\ Cardinality({req[1].newContact, req[2].newContact} \ {NULL}) <= 1
       /\ req[1].leadId # req[2].leadId
       /\ \A r \in Reqs :
             \E l \in leads : l.id = req[r].leadId /\ l.contact_id = req[r].contactId

----------------------------------------------------------------------------
(* addTagsToLead called again and again, one call at a time *)

\* tag names as they arrive: plain, with a leading blank, and repeated
TagLists ==
    { << <<"h">> >>, << <<" ", "h">> >>, << <<"h">>, <<"h">> >>, << <<"h">>, <<" ", "h">> >> }

TagInputs == [id : {3}, tags : TagLists]
\* the other tenant tags its own lead
OtherTagInputs == [id : {4}, tags : { << <<"h">> >> }]

\* a call arrives while no other is in flight
TagCall ==
    /\ \A r \in Reqs : ~InFlight(r)
    /\ \E r \in Reqs :
          \/ StartAuthenticated(r, "addTags", TxUsers, TagInputs)
          \/ StartAuthenticated(r, "addTags", team_users \ TxUsers, OtherTagInputs)

NextTags ==
    \/ TagCall
    \/ \E r \in Reqs :
          \/ Authenticate(r)
          \/ Connect(r) \/ Begin(r) \/ SetLocal(r)
          \/ LeadExistsStep(r) \/ CreateOrGet(r) \/ LinkToLeadStep(r)
          \/ Commit(r) \/ Rollback(r)

\* each tenant owns one lead, as in InitRefs
SpecTags == InitRefs /\ [][NextTags]_vars

\* addTagsToLead answered 200
Tagged(q) == q.op = "addTags" /\ q.pc = "done" /\ q.resp = 200

\* C10: tag link idempotence.  However often addTagsToLead is applied to a
\* lead with a name, and however often the name is repeated in one call:
\* there is one tag row per tenant and trimmed name and one link per lead
\* and tag; a call answered 200 resolved every name to that tag row and left
\* exactly one link to it; two calls resolve a name to the same tag id; and
\* a call on a lead of its tenant that met no store fault is answered 200.
C10_TagLinkIdempotence ==
    /\ \A t1, t2 \in tags :
          (t1.tenant_id = t2.tenant_id /\ t1.name = t2.name) => t1.id = t2.id
    /\ \A k \in BagToSet(lead_tags) : CopiesIn(k, lead_tags) = 1
    /\ \A r \in Reqs :
          Tagged(req[r]) =>
             /\ Len(req[r].added) = Len(req[r].in.tags)
             /\ \A i \in 1 .. Len(req[r].in.tags) :
                   \E t \in tags :
                      /\ t.tenant_id = req[r].tenant /\ t.name = Trim(req[r].in.tags[i])
                      /\ req[r].added[i] = t.id
                      /\ CopiesIn(<<req[r].in.id, t.id>>, lead_tags) = 1
    /\ \A r \in Reqs :
          ( /\ req[r].op = "addTags" /\ req[r].pc = "done" /\ ~req[r].fault
            /\ LeadExists(req[r].in.id, req[r].tenant) ) => req[r].resp = 200
    /\ (Tagged(req[1]) /\ Tagged(req[2]) /\ req[1].tenant = req[2].tenant) =>
          \A i \in 1 .. Len(req[1].in.tags), j \in 1 .. Len(req[2].in.tags) :
             Trim(req[1].in.tags[i]) = Trim(req[2].in.tags[j])
                => req[1].added[i] = req[2].added[j]

\* C10 witness: two calls of tenant 1 on lead 3 were answered 200, the
\* earlier with the name repeated, the later with a leading blank and
\* creating nothing; tenant 1 has one tag row and lead 3 one link, while
\* tenant 2 has a tag row of the same name of its own
C10_Witness ==
    /\ Tagged(req[1]) /\ Tagged(req[2])
    /\ req[1].tenant = 1 /\ req[2].tenant = 1
    /\ req[1].in.tags = << <<"h">>, <<"h">> >>
    /\ req[2].in.tags = << <<" ", "h">> >> /\ req[2].newTags = {} /\ req[2].newLinks = {}
    /\ Cardinality({ t \in tags : t.tenant_id = 1 }) = 1
    /\ Cardinality({ t \in tags : t.tenant_id = 2 /\ t.name = <<"h">> }) = 1
    /\ Cardinality({ k \in BagToSet(lead_tags) : k[1] = 3 }) = 1

----------------------------------------------------------------------------
(* update(id, tenantId, bag) of the entity access modules                   *)

\* values CURRENT_TIMESTAMP / now() may yield
MaxTime == 2
Times == 1 .. MaxTime

\* a row with its updated_at column
Stamped(x, at) == [updated_at |-> at] @@ x

\* array.join(', '): the items with a "," between two of them
RECURSIVE Join(_)
Join(items) ==
    IF Len(items) = 0 THEN << >>
    ELSE IF Len(items) = 1 THEN items
    ELSE << items[1], "," >> \o Join(Tail(items))

\* columns a lead row has, in the order Object.keys may list them
LeadColumns == << "status", "stage", "score", "owner_user_id" >>

\* Object.keys(updates)
Keys(updates) == SelectSeq(LeadColumns, LAMBDA f : f \in DOMAIN updates)

\* LeadModel.update: the assignment list of `SET ${setClause}, updated_at =
\* CURRENT_TIMESTAMP`, one item per assignment
SetList(updates) == Join(Keys(updates)) \o << ",", "updated_at" >>

\* an assignment list the store parses: assignments separated by ","
WellFormed(list) ==
    /\ Len(list) % 2 = 1
    /\ \A i \in 1 .. Len(list) : (list[i] = ",") <=> (i % 2 = 0)

\* the statement of LeadModel.update is one the store accepts
LeadUpdateParses(updates) == WellFormed(SetList(updates))

\* the rows matched by the WHERE clause get their updated_at refreshed
Touched(table, id, tenantId, now) ==
    { IF Matches(x, id, tenantId) THEN [x EXCEPT !.updated_at = now] ELSE x : x \in table }

\* const { first_name, ... } = contactData: a key the bag lacks is undefined
ContactData(bag) ==
    [f \in DOMAIN NoContactUpdate |-> IF f \in DOMAIN bag THEN bag[f] ELSE NoContactUpdate[f]]

\* const { name, ... } = data: undefined when the bag has no name
NameOf(bag) == IF "name" \in DOMAIN bag THEN bag.name ELSE ""

\* UserModel.update: SET is_active = COALESCE($4, is_active), no updated_at
UserUpdated(id, tenantId, bag) ==
    { IF Matches(x, id, tenantId) /\ "is_active" \in DOMAIN bag
        THEN [x EXCEPT !.is_active = bag.is_active] ELSE x : x \in user_rows }

\* the field bags a caller may pass: every subset of a full bag
Bags(full) == { [f \in S |-> full[f]] : S \in SUBSET DOMAIN full }
LeadBags == Bags([status |-> "won", score |-> 5])
ContactBags == Bags([first_name |-> "Al", email |-> "b@x.com"])
NameBags == Bags([name |-> "new"])
UserBags == Bags([is_active |-> FALSE])

UpdateEntities == {"lead", "contact", "company", "opportunity", "tag", "user"}

UpdateTable(e) ==
    CASE e = "lead" -> leads
      [] e = "contact" -> contacts
      [] e = "company" -> companies
      [] e = "opportunity" -> opportunities
      [] e = "tag" -> tags
      [] OTHER -> user_rows

\* the outcome of an update call: what was asked, the rows that carried the
\* id before the call, and 200 for a row returned, 404 for no row returned,
\* 500 for a rejected statement
UpdateCall(r, e, t, id, bag, status) ==
    req' = [req EXCEPT ![r] =
              [Idle EXCEPT !.op = "update", !.pc = "done", !.tenant = t,
                           !.in = [entity |-> e, id |-> id, bag |-> bag],
                           !.upd = { x \in UpdateTable(e) : x.id = id },
                           !.resp = status]]

Returned(table, id, t) == IF FindById(table, id, t) # {} THEN 200 ELSE 404

\* LeadModel.update(leadId, tenantId, updates)
PatchLead(r) ==
    /\ ~InFlight(r)
    /\ \E t \in Tenants, id \in SeedIds, bag \in LeadBags, now \in Times :
         IF LeadUpdateParses(bag)
           THEN /\ leads' = Touched(LeadUpdated(id, t, bag), id, t, now)
                /\ UpdateCall(r, "lead", t, id, bag, Returned(leads, id, t))
           ELSE /\ leads' = leads
                /\ UpdateCall(r, "lead", t, id, bag, 500)
    /\ UNCHANGED <<user_rows, pipeline_stages, contacts, activity_log, companies,
                    opportunities, tasks, interactions, tags, lead_tags, nextId, conn>>

\* ContactModel.update(contactId, tenantId, contactData)
PatchContact(r) ==
    /\ ~InFlight(r)
    /\ \E t \in Tenants, id \in SeedIds, bag \in ContactBags, now \in Times :
         /\ contacts' = Touched(ContactUpdated(id, t, ContactData(bag)), id, t, now)
         /\ UpdateCall(r, "contact", t, id, bag, Returned(contacts, id, t))
    /\ UNCHANGED <<user_rows, pipeline_stages, leads, activity_log, companies,
                    opportunities, tasks, interactions, tags, lead_tags, nextId, conn>>

\* CompanyModel.update(companyId, tenantId, companyData)
PatchCompany(r) ==
    /\ ~InFlight(r)
    /\ \E t \in Tenants, id \in SeedIds, bag \in NameBags, now \in Times :
         /\ companies' = Touched(NameUpdated(companies, id, t, NameOf(bag)), id, t, now)
         /\ UpdateCall(r, "company", t, id, bag, Returned(companies, id, t))
    /\ UNCHANGED <<user_rows, pipeline_stages, contacts, leads, activity_log,
                    opportunities, tasks, interactions, tags, lead_tags, nextId, conn>>

\* OpportunityModel.update(opportunityId, tenantId, updateData)
PatchOpportunity(r) ==
    /\ ~InFlight(r)
    /\ \E t \in Tenants, id \in SeedIds, bag \in NameBags, now \in Times :
         /\ opportunities' =
              Touched(NameUpdated(opportunities, id, t, NameOf(bag)), id, t, now)
         /\ UpdateCall(r, "opportunity", t, id, bag, Returned(opportunities, id, t))
    /\ UNCHANGED <<user_rows, pipeline_stages, contacts, leads, activity_log,
                    companies, tasks, interactions, tags, lead_tags, nextId, conn>>

\* TagModel.update(tagId, tenantId, tagData): no updated_at in its SET list
PatchTag(r) ==
    /\ ~InFlight(r)
    /\ \E t \in Tenants, id \in SeedIds, bag \in NameBags :
         /\ tags' = NameUpdated(tags, id, t, NameOf(bag))
         /\ UpdateCall(r, "tag", t, id, bag, Returned(tags, id, t))
    /\ UNCHANGED <<user_rows, pipeline_stages, contacts, leads, activity_log,
                    companies, opportunities, tasks, interactions, lead_tags, nextId,
                    conn>>

\* UserModel.update(userId, tenantId, userData)
PatchUser(r) ==
    /\ ~InFlight(r)
    /\ \E t \in Tenants, id \in UserIds, bag \in UserBags :
         /\ user_rows' = UserUpdated(id, t, bag)
         /\ UpdateCall(r, "user", t, id, bag, Returned(user_rows, id, t))
    /\ UNCHANGED <<pipeline_stages, contacts, leads, activity_log, companies,
                    opportunities, tasks, interactions, tags, lead_tags, nextId, conn>>

\* one entity holds a row of each tenant; the users are those of team_users
InitUpdate ==
    /\ \E e \in UpdateEntities :
         /\ leads = (IF e = "lead"
                       THEN {Stamped(SeedLead(3, 1), 0), Stamped(SeedLead(4, 2), 0)} ELSE {})
         /\ contacts = (IF e = "contact"
                          THEN {Stamped(SeedContact(3, 1, "a@x.com", ""), 0),
                                Stamped(SeedContact(4, 2, "a@x.com", ""), 0)}
                          ELSE {})
         /\ companies = (IF e = "company"
                           THEN {Stamped(SeedCompany(3, 1), 0), Stamped(SeedCompany(4, 2), 0)}
                           ELSE {})
         /\ opportunities = (IF e = "opportunity"
                               THEN {Stamped(SeedOpportunity(3, 1), 0),
                                     Stamped(SeedOpportunity(4, 2), 0)}
                               ELSE {})
         /\ tags = (IF e = "tag" THEN {SeedTag(3, 1, <<"h">>), SeedTag(4, 2, <<"h">>)} ELSE {})
    /\ tasks = {} /\ interactions = {} /\ activity_log = {}
    /\ lead_tags = EmptyBag
    /\ user_rows = team_users /\ pipeline_stages = {}
    /\ nextId = FirstRowId
    /\ conn = [c \in Conns |-> FreshConn]
    /\ req = [r \in Reqs |-> Idle]

NextUpdate ==
    \/ PatchLead(1) \/ PatchContact(1) \/ PatchCompany(1)
    \/ PatchOpportunity(1) \/ PatchTag(1) \/ PatchUser(1)

SpecUpdate == InitUpdate /\ [][NextUpdate]_vars

\* the last call was an update with the empty bag of a row of the caller's tenant
EmptyUpdate(q) ==
    /\ q.op = "update" /\ q.pc = "done"
    /\ DOMAIN q.in.bag = {}
    /\ \E x \in q.upd : x.tenant_id = q.tenant

\* the two rows agree on every column but updated_at
SameButStamp(x, y) ==
    /\ DOMAIN x = DOMAIN y
    /\ \A f \in DOMAIN x \ {"updated_at"} : x[f] = y[f]

\* C11: for lead, contact, company, opportunity, tag and user, an update with
\* the empty field bag of an existing row of the caller's tenant succeeds,
\* returns the row, and leaves every column but updated_at as it was.
C11_PartialUpdateSafety ==
    EmptyUpdate(req[1]) =>
        /\ req[1].resp = 200
        /\ \A x \in req[1].upd : x.tenant_id = req[1].tenant =>
              \E y \in UpdateTable(req[1].in.entity) : y.id = x.id /\ SameButStamp(x, y)

----------------------------------------------------------------------------
(* The list endpoints that report pagination: leads, tasks, interactions,   *)
(* contacts, companies                                                      *)

\* rows of the caller's tenant a table may hold
MaxListed == 3
\* values of the limit and page query parameters
MaxLimit == 2
MaxPage == 3
Limits == 1 .. MaxLimit
Pages == 1 .. MaxPage

\* a row with the columns a list query filters and orders by
Listed(x, columns) == columns @@ x

\* `if (value) whereConditions.push(column = $n)`: an absent value filters nothing
Equals(x, col, val) == val = "" \/ x[col] = val
\* `if (filters.created_after) query += AND c.created_at >= $n`
NotBefore(x, col, val) == val = NULL \/ x[col] >= val

\* the sequences that hold each row of S once and respect ORDER BY: no row
\* comes after one it sorts before
Orderings(S, Before(_, _)) ==
    { o \in [1 .. Cardinality(S) -> S] :
        /\ \A i, j \in DOMAIN o : i # j => o[i] # o[j]
        /\ \A i, j \in DOMAIN o : i < j => ~Before(o[j], o[i]) }

\* COUNT(*) OVER() as total_count: every row carries the number of rows
\* the WHERE clause matched
WithTotal(o) == [i \in DOMAIN o |-> [row |-> o[i], total_count |-> Len(o)]]

\* a LIMIT that, past the last row, yields the last rows instead of none
SliceClamped(o, limit, offset) ==
    IF offset >= Len(o) /\ Len(o) > 0
      THEN SubSeq(o, IF Len(o) > limit THEN Len(o) - limit + 1 ELSE 1, Len(o))
      ELSE SubSeq(o, offset + 1, IF offset + limit < Len(o) THEN offset + limit ELSE Len(o))

\* LIMIT $n OFFSET $m
Slice(o, limit, offset) ==
    SubSeq(o, offset + 1, IF offset + limit < Len(o) THEN offset + limit ELSE Len(o))

\* const offset = (page - 1) * limit
Offset(page, limit) == (page - 1) * limit

\* rows.length > 0 ? parseInt(rows[0].total_count) : 0
TotalCount(rows) == IF Len(rows) > 0 THEN rows[1].total_count ELSE 0

\* Math.ceil(totalCount / limit)
Ceil(n, limit) == (n + limit - 1) \div limit

\* sendSuccess(res, 200, { items, pagination: { page, limit, total, pages } });
\* a list call reads the tables and leaves them as they are, so each
\* request slot serves one call
ListCall(r, e, t, filters, page, limit, items, total) ==
    req' = [req EXCEPT ![r] =
              [Idle EXCEPT !.op = "list", !.pc = "done", !.tenant = t,
                           !.in = [entity |-> e, filters |-> filters,
                                   page |-> page, limit |-> limit],
                           !.upd = [items |-> items, offset |-> Offset(page, limit),
                                    total |-> total, pages |-> Ceil(total, limit)],
                           !.resp = 200]]

\* the result of a query that carries COUNT(*) OVER(): the rows of the
\* page without their total_count, and totalCount
Windowed(r, e, t, filters, page, limit, o) ==
    LET rows == Slice(WithTotal(o), limit, Offset(page, limit))
    IN ListCall(r, e, t, filters, page, limit,
                [i \in DOMAIN rows |-> rows[i].row], TotalCount(rows))

\* ORDER BY <column> ASC | DESC
ByColumn(a, b, col, order) ==
    IF order = "desc" THEN a[col] > b[col] ELSE a[col] < b[col]

\* leadsController.getLeads, LeadModel.getLeadsWithFilters
LeadFilters == [status : {"", "won"}, sort : {"created_at", "score"}, order : {"asc", "desc"}]
LeadsWhere(t, f) == { x \in leads : x.tenant_id = t /\ Equals(x, "status", f.status) }
LeadBefore(f, a, b) == ByColumn(a, b, f.sort, f.order)
GetLeads(r) ==
    /\ req[r].pc = "idle"
    /\ \E t \in Tenants, f \in LeadFilters, page \in Pages, limit \in Limits :
         \E o \in Orderings(LeadsWhere(t, f), LAMBDA a, b : LeadBefore(f, a, b)) :
            Windowed(r, "lead", t, f, page, limit, o)
    /\ UNCHANGED <<store, conn>>

\* every priority ranks the same
PriorityRankFlat(priority) == 1

\* the CASE expression of ORDER BY: the rank of a priority
PriorityRank(priority) ==
    CASE priority = "urgent" -> 1
      [] priority = "high" -> 2
      [] priority = "normal" -> 3
      [] OTHER -> 4

\* t.due_at ASC NULLS LAST
DueBefore(a, b) ==
    /\ a.due_at # NULL
    /\ b.due_at = NULL \/ a.due_at < b.due_at

\* ORDER BY CASE ... END, t.due_at ASC NULLS LAST, t.created_at DESC
TaskBefore(a, b) ==
    \/ PriorityRank(a.priority) < PriorityRank(b.priority)
    \/ /\ PriorityRank(a.priority) = PriorityRank(b.priority)
       /\ \/ DueBefore(a, b)
          \/ /\ a.due_at = b.due_at
             /\ a.created_at > b.created_at

\* tasksController.getTasks, TaskModel.getTasksWithFilters; sort and order
\* are no keys it reads
TaskFilters == [priority : {"", "low"}, sort : {"", "created_at"}, order : {"", "asc"}]
TasksWhere(t, f) == { x \in tasks : x.tenant_id = t /\ Equals(x, "priority", f.priority) }
GetTasks(r) ==
    /\ req[r].pc = "idle"
    /\ \E t \in Tenants, f \in TaskFilters, page \in Pages, limit \in Limits :
         \E o \in Orderings(TasksWhere(t, f), TaskBefore) :
            Windowed(r, "task", t, f, page, limit, o)
    /\ UNCHANGED <<store, conn>>

\* interactionsController.getInteractions,
\* InteractionModel.getInteractionsWithFilters: ORDER BY i.occurred_at DESC
InteractionFilters == [channel : {"", "call"}]
InteractionsWhere(t, f) ==
    { x \in interactions : x.tenant_id = t /\ Equals(x, "channel", f.channel) }
GetInteractions(r) ==
    /\ req[r].pc = "idle"
    /\ \E t \in Tenants, f \in InteractionFilters, page \in Pages, limit \in Limits :
         \E o \in Orderings(InteractionsWhere(t, f),
                            LAMBDA a, b : ByColumn(a, b, "occurred_at", "desc")) :
            Windowed(r, "interaction", t, f, page, limit, o)
    /\ UNCHANGED <<store, conn>>

\* contactsController.getContacts: ContactModel.findAll (ORDER BY
\* c.created_at DESC when no sort_by is given), then ContactModel.countTotal
ContactFilters == [source : {"", "fairex"}]
ContactsWhere(t, f) == { x \in contacts : x.tenant_id = t /\ Equals(x, "source", f.source) }
GetContacts(r) ==
    /\ req[r].pc = "idle"
    /\ \E t \in Tenants, f \in ContactFilters, page \in Pages, limit \in Limits :
         \E o \in Orderings(ContactsWhere(t, f),
                            LAMBDA a, b : ByColumn(a, b, "created_at", "desc")) :
            ListCall(r, "contact", t, f, page, limit,
                     Slice(o, limit, Offset(page, limit)),
                     Cardinality(ContactsWhere(t, f)))
    /\ UNCHANGED <<store, conn>>

\* companiesController.getCompanies: CompanyModel.findAll, then
\* CompanyModel.countTotal
CompanyFilters == [created_after : {NULL, 5}]
CompaniesWhere(t, f) ==
    { x \in companies : x.tenant_id = t /\ NotBefore(x, "created_at", f.created_after) }
GetCompanies(r) ==
    /\ req[r].pc = "idle"
    /\ \E t \in Tenants, f \in CompanyFilters, page \in Pages, limit \in Limits :
         \E o \in Orderings(CompaniesWhere(t, f),
                            LAMBDA a, b : ByColumn(a, b, "created_at", "desc")) :
            ListCall(r, "company", t, f, page, limit,
                     Slice(o, limit, Offset(page, limit)),
                     Cardinality(CompaniesWhere(t, f)))
    /\ UNCHANGED <<store, conn>>

\* the rows a table may start with: ids 3.. of tenant 1, one row of tenant 2
ListedLead(id, t, status, score) ==
    Listed([SeedLead(id, t) EXCEPT !.status = status, !.score = score], [created_at |-> id])
LeadPool ==
    { ListedLead(3, 1, "new", 5), ListedLead(4, 1, "won", 5), ListedLead(5, 1, "won", 0),
      ListedLead(6, 1, "new", 9), ListedLead(7, 2, "won", 1) }

ListedTask(id, t, priority, due_at, created_at) ==
    Listed(SeedTask(id, t), [priority |-> priority, due_at |-> due_at,
                             created_at |-> created_at])
TaskPool ==
    { ListedTask(3, 1, "low", 1, 1), ListedTask(4, 1, "low", 1, 2),
      ListedTask(5, 1, "low", NULL, 3), ListedTask(6, 1, "urgent", NULL, 4),
      ListedTask(7, 1, "high", 2, 5), ListedTask(8, 1, "normal", 1, 5),
      ListedTask(9, 2, "urgent", 1, 6) }

ListedInteraction(id, t, channel) ==
    Listed(SeedInteraction(id, t), [channel |-> channel, occurred_at |-> id])
InteractionPool ==
    { ListedInteraction(3, 1, "call"), ListedInteraction(4, 1, "email"),
      ListedInteraction(5, 1, "call"), ListedInteraction(6, 1, "call"),
      ListedInteraction(7, 2, "call") }

ListedContact(id, t, source) ==
    Listed([SeedContact(id, t, "", "") EXCEPT !.source = source], [created_at |-> id])
ContactPool ==
    { ListedContact(3, 1, "fairex"), ListedContact(4, 1, "manual"),
      ListedContact(5, 1, "fairex"), ListedContact(6, 1, "fairex"),
      ListedContact(7, 2, "fairex") }

CompanyPool == { Listed(SeedCompany(id, IF id = 7 THEN 2 ELSE 1), [created_at |-> id]) : id \in 3 .. 7 }

ListEntities == {"lead", "task", "interaction", "contact", "company"}

PoolOf(e) ==
    CASE e = "lead" -> LeadPool
      [] e = "task" -> TaskPool
      [] e = "interaction" -> InteractionPool
      [] e = "contact" -> ContactPool
      [] OTHER -> CompanyPool

\* the tables a list specification may start with: one entity holds rows,
\* at most MaxListed of them of tenant 1
Tables(e) ==
    { S \in SUBSET PoolOf(e) : Cardinality({ x \in S : x.tenant_id = 1 }) <= MaxListed }

InitList ==
    /\ \E e \in ListEntities : \E S \in Tables(e) :
         /\ leads = (IF e = "lead" THEN S ELSE {})
         /\ tasks = (IF e = "task" THEN S ELSE {})
         /\ interactions = (IF e = "interaction" THEN S ELSE {})
         /\ contacts = (IF e = "contact" THEN S ELSE {})
         /\ companies = (IF e = "company" THEN S ELSE {})
    /\ opportunities = {} /\ tags = {} /\ activity_log = {}
    /\ lead_tags = EmptyBag
    /\ user_rows = team_users /\ pipeline_stages = {}
    /\ nextId = FirstRowId
    /\ conn = [c \in Conns |-> FreshConn]
    /\ req = [r \in Reqs |-> Idle]

NextList ==
    \/ GetLeads(1) \/ GetTasks(1) \/ GetInteractions(1)
    \/ GetContacts(1) \/ GetCompanies(1)

SpecList == InitList /\ [][NextList]_vars

\* the rows of the caller's tenant the filters of the last list call match
Matching(q) ==
    CASE q.in.entity = "lead" -> LeadsWhere(q.tenant, q.in.filters)
      [] q.in.entity = "task" -> TasksWhere(q.tenant, q.in.filters)
      [] q.in.entity = "interaction" -> InteractionsWhere(q.tenant, q.in.filters)
      [] q.in.entity = "contact" -> ContactsWhere(q.tenant, q.in.filters)
      [] OTHER -> CompaniesWhere(q.tenant, q.in.filters)

Listing(q) == q.op = "list" /\ q.pc = "done"

\* the page asked for lies past the last page of the filtered result
PastLastPage(q) == q.in.page > Ceil(Cardinality(Matching(q)), q.in.limit)

\* C12: for leads, tasks, interactions, contacts and companies, every filter
\* set matching N rows of the tenant, every limit and every page >= 1, pages
\* past the last one included, the reported total is N and pages is
\* ceil(N / limit).
C12_PaginationConsistency ==
    Listing(req[1]) =>
        /\ req[1].upd.total = Cardinality(Matching(req[1]))
        /\ req[1].upd.pages = Ceil(Cardinality(Matching(req[1])), req[1].in.limit)

RankOf == [urgent |-> 1, high |-> 2, normal |-> 3, low |-> 4]

\* task a may stand before task b in a task list
InTaskOrder(a, b) ==
    \/ RankOf[a.priority] < RankOf[b.priority]
    \/ /\ RankOf[a.priority] = RankOf[b.priority]
       /\ \/ a.due_at # NULL /\ b.due_at = NULL
          \/ a.due_at # NULL /\ b.due_at # NULL /\ a.due_at < b.due_at
          \/ a.due_at = b.due_at /\ a.created_at >= b.created_at

\* C15: getTasksWithFilters returns the tasks ordered by priority rank
\* urgent < high < normal < low, then by due time ascending with tasks
\* lacking a due time last, then by creation time descending, whatever sort
\* options the client supplies.
C15_TaskListOrdering ==
    Listing(req[1]) /\ req[1].in.entity = "task" =>
        \A i, j \in DOMAIN req[1].upd.items :
            i < j => InTaskOrder(req[1].upd.items[i], req[1].upd.items[j])

\* a task list asked for with sort options, holding an urgent task without
\* a due time ahead of a low one that is due
C15_Witness ==
    /\ Listing(req[1]) /\ req[1].in.entity = "task"
    /\ req[1].in.filters.sort = "created_at" /\ req[1].in.filters.order = "asc"
    /\ Len(req[1].upd.items) = 2
    /\ req[1].upd.items[1].priority = "urgent" /\ req[1].upd.items[1].due_at = NULL
    /\ req[1].upd.items[2].priority = "low" /\ req[1].upd.items[2].due_at # NULL

----------------------------------------------------------------------------
(* pipelineController.createStage and PipelineModel.createStage            *)

\* stages the store may hold
MaxStages == 3

\* rows of table pipelines: two of tenant 1, one of tenant 2
pipelines == { [id |-> 3, tenant_id |-> 1], [id |-> 4, tenant_id |-> 1],
               [id |-> 5, tenant_id |-> 2] }

\* SELECT COALESCE(MAX(position), 0) + 1 over the stages of every pipeline
NextPositionOverall(pipelineId) ==
    LET positions == { s.position : s \in pipeline_stages }
    IN IF positions = {} THEN 1
       ELSE (CHOOSE p \in positions : \A q \in positions : q <= p) + 1

\* SELECT COALESCE(MAX(position), 0) + 1 FROM pipeline_stages
\* WHERE pipeline_id = $1
NextPosition(pipelineId) ==
    LET positions == { s.position : s \in { x \in pipeline_stages : x.pipeline_id = pipelineId } }
    IN IF positions = {} THEN 1
       ELSE (CHOOSE p \in positions : \A q \in positions : q <= p) + 1

\* INSERT INTO pipeline_stages (id, tenant_id, pipeline_id, name, position,
\* probability) VALUES (gen_random_uuid(), $1, $2, $3, $4, 0)
StageRow(id, tenantId, pipelineId, name, position) ==
    [id |-> id, tenant_id |-> tenantId, pipeline_id |-> pipelineId, name |-> name,
     position |-> position, probability |-> 0]

\* req.params.id, req.body.name; nextPosition is the local of
\* PipelineModel.createStage
StageInputs ==
    [id : { p.id : p \in pipelines }, name : {"Won", "Lead In"}, nextPosition : {NULL}]

\* catch: sendError(res, 500, 'Failed to create stage')
StageFailed(r) ==
    /\ req' = [req EXCEPT ![r].pc = "done", ![r].resp = 500, ![r].fault = TRUE]
    /\ UNCHANGED <<store, conn>>

\* const pipeline = await PipelineModel.findById(pipelineId, tenant_id);
\* if (!pipeline) return sendError(res, 404, ...)
FindPipeline(r) ==
    /\ req[r].pc = "createStage"
    /\ \/ /\ req' = [req EXCEPT ![r] =
                       IF FindById(pipelines, req[r].in.id, req[r].tenant) # {}
                         THEN [@ EXCEPT !.pc = "nextPosition"]
                         ELSE [@ EXCEPT !.pc = "done", !.resp = 404]]
          /\ UNCHANGED <<store, conn>>
       \/ StageFailed(r)

\* const { rows: positionRows } = await db.query(positionQuery, [pipelineId])
SelectPosition(r) ==
    /\ req[r].pc = "nextPosition"
    /\ \/ /\ req' = [req EXCEPT ![r].in.nextPosition = NextPosition(req[r].in.id),
                                ![r].pc = "insertStage"]
          /\ UNCHANGED <<store, conn>>
       \/ StageFailed(r)

\* const { rows } = await db.query(query, values); sendSuccess(res, 201, stage)
InsertStage(r) ==
    /\ req[r].pc = "insertStage"
    /\ \/ /\ Cardinality(pipeline_stages) < MaxStages
          /\ pipeline_stages' = pipeline_stages \cup
                 {StageRow(nextId, req[r].tenant, req[r].in.id, req[r].in.name,
                           req[r].in.nextPosition)}
          /\ nextId' = nextId + 1
          /\ req' = [req EXCEPT ![r].pc = "done", ![r].resp = 201, ![r].leadId = nextId]
          /\ UNCHANGED <<user_rows, contacts, leads, activity_log, companies,
                          opportunities, tasks, interactions, tags, lead_tags, conn>>
       \/ StageFailed(r)

\* createStage requests of both tenants, one after the other
NextStages ==
    \/ StartAuthenticated(1, "createStage", team_users, StageInputs)
    \/ Authenticate(1)
    \/ FindPipeline(1) \/ SelectPosition(1) \/ InsertStage(1)

SpecStages == Init /\ [][NextStages]_vars

\* the stages of the pipeline created no later than stage s (the store hands
\* out ids in the order of creation)
CreatedUpTo(s) ==
    { x \in pipeline_stages : x.pipeline_id = s.pipeline_id /\ x.id <= s.id }

\* C14: with createStage calls one after the other and no stage deleted, the
\* k-th stage created on a pipeline has position k, whatever the names and
\* whatever stages other pipelines have.
C14_StagePositions ==
    \A s \in pipeline_stages : s.position = Cardinality(CreatedUpTo(s))

\* three stages exist, two of them on one pipeline after a stage of another
\* pipeline was created, and two stages share a name
C14_Witness ==
    /\ Cardinality(pipeline_stages) = MaxStages
    /\ \E s, u \in pipeline_stages :
         /\ s.pipeline_id # u.pipeline_id
         /\ s.id < u.id /\ u.position = 2
    /\ \E s, u \in pipeline_stages : s.id # u.id /\ s.name = u.name

----------------------------------------------------------------------------
(* authenticateToken on a request bearing any credential, in the two       *)
(* variants of the middleware                                               *)

\* a user of tenant 1 whose active flag is off
InactiveUser == [id |-> 7, tenant_id |-> 1, is_active |-> FALSE]

\* user ids a credential may carry: the active users, the inactive one, and
\* an id of no row
TokenUserIds == UserIds \cup {InactiveUser.id, 9}

\* the Authorization header: absent, or a token whose signature is good or
\* not, expired or not, with the userId and tenantId of its payload
Tokens ==
    [present : {FALSE}, signed : {FALSE}, expired : {FALSE}, userId : {NULL},
     tenantId : {NULL}]
    \cup [present : {TRUE}, signed : BOOLEAN, expired : BOOLEAN,
          userId : TokenUserIds, tenantId : Tenants]

Variants == {"first", "second"}

\* a request arrives at the middleware
Arrive(r) ==
    /\ ~InFlight(r)
    /\ \E v \in Variants, token \in Tokens :
         req' = [req EXCEPT ![r] = [Idle EXCEPT !.op = "auth", !.pc = "verify",
                                                !.in = [variant |-> v, token |-> token]]]
    /\ UNCHANGED <<store, conn>>

\* if (!token) return 401; jwt.verify(token, JWT_SECRET) throws on a bad
\* signature and on an expired token: 401
VerifyToken(r) ==
    /\ req[r].pc = "verify"
    /\ LET token == req[r].in.token
       IN req' = [req EXCEPT ![r] =
                    IF token.present /\ token.signed /\ ~token.expired
                      THEN [@ EXCEPT !.pc = "findUser"]
                      ELSE [@ EXCEPT !.pc = "done", !.resp = 401]]
    /\ UNCHANGED <<store, conn>>

\* a lookup by id that leaves out AND tu.is_active = true
FindByIdAnyStatus(userId) ==
    { u \in user_rows : u.id = userId /\ u.tenant_id \in Tenants }

\* UserModel.findByIdWithTenant: WHERE tu.id = $1 AND tu.is_active = true
FindByIdWithTenant(userId) ==
    { u \in user_rows : u.id = userId /\ u.is_active /\ u.tenant_id \in Tenants }

\* const user = await User.findByIdWithTenant(decoded.userId); if (!user)
\* return 401; in the second variant also: if (user.tenant_id !==
\* decoded.tenantId) return 401.  A rejected lookup is answered 401.
FindUser(r) ==
    /\ req[r].pc = "findUser"
    /\ LET token == req[r].in.token
           found == FindByIdWithTenant(token.userId)
       IN \/ /\ found = {}
             /\ req' = [req EXCEPT ![r].pc = "done", ![r].resp = 401]
          \/ \E u \in found :
               req' = [req EXCEPT ![r] =
                         IF req[r].in.variant = "second" /\ u.tenant_id # token.tenantId
                           THEN [@ EXCEPT !.pc = "done", !.resp = 401]
                           ELSE [@ EXCEPT !.pc = "setTenantContext",
                                          !.user = u.id, !.tenant = u.tenant_id]]
          \/ req' = [req EXCEPT ![r].pc = "done", ![r].resp = 401, ![r].fault = TRUE]
    /\ UNCHANGED <<store, conn>>

\* await setTenantContext(req.user.tenant_id): SET LOCAL through db.query;
\* the second variant logs a rejection and goes on, the first answers 401
SetTenantContext(r) ==
    /\ req[r].pc = "setTenantContext"
    /\ \E d \in IdleConns :
         \/ /\ conn' = ConnSetLocal(conn, d, req[r].tenant)
            /\ req' = [req EXCEPT ![r].bindConn = d, ![r].pc = "next"]
         \/ /\ conn' = conn
            /\ req' = [req EXCEPT ![r] =
                         IF req[r].in.variant = "second"
                           THEN [@ EXCEPT !.bindConn = d, !.pc = "next"]
                           ELSE [@ EXCEPT !.bindConn = d, !.pc = "done", !.resp = 401,
                                          !.fault = TRUE]]
    /\ UNCHANGED store

\* next(): the downstream handler runs and answers
Downstream(r) ==
    /\ req[r].pc = "next"
    /\ req' = [req EXCEPT ![r].pc = "done", ![r].resp = 200]
    /\ UNCHANGED <<store, conn>>

\* the users of team_users and an inactive one
InitAuth ==
    /\ contacts = {} /\ leads = {} /\ activity_log = {} /\ companies = {}
    /\ opportunities = {} /\ tasks = {} /\ interactions = {} /\ tags = {}
    /\ lead_tags = EmptyBag
    /\ user_rows = team_users \cup {InactiveUser} /\ pipeline_stages = {}
    /\ nextId = FirstRowId
    /\ conn = [c \in Conns |-> FreshConn]
    /\ req = [r \in Reqs |-> Idle]

NextAuth ==
    \E r \in Reqs :
        \/ Arrive(r) \/ VerifyToken(r) \/ FindUser(r) \/ SetTenantContext(r)
        \/ Downstream(r)

SpecAuth == InitAuth /\ [][NextAuth]_vars

\* the credential is missing, badly signed, expired, of an unknown or
\* inactive user, or carries a tenant that is not the user's
Rejectable(token) ==
    \/ ~token.present \/ ~token.signed \/ token.expired
    \/ \A u \in user_rows :
          u.id = token.userId => ~u.is_active \/ u.tenant_id # token.tenantId

\* C16: for a missing credential, an invalid signature, an expired
\* credential, an unknown or inactive user and a credential whose tenant
\* differs from the user's, authenticateToken answers 401, does not call the
\* downstream handler and issues no tenant-binding statement.
C16_CredentialRejection ==
    \A r \in Reqs :
        req[r].op = "auth" /\ Rejectable(req[r].in.token) =>
            /\ req[r].pc \notin {"setTenantContext", "next"}
            /\ req[r].bindConn = NULL
            /\ req[r].pc = "done" => req[r].resp = 401

----------------------------------------------------------------------------
(* One call of handleLeadCaptured on tables created earlier                 *)

\* the contacts the tables may hold before the call
HookContacts == { SeedContact(3, 1, "a@x.com", ""), SeedContact(4, 2, "a@x.com", "555") }

\* a lead of tenant 1 exists; any of the contacts may
InitHook ==
    /\ \E S \in SUBSET HookContacts : contacts = S
    /\ leads = {SeedLead(3, 1)}
    /\ activity_log = {} /\ companies = {}
    /\ opportunities = {} /\ tasks = {} /\ interactions = {} /\ tags = {}
    /\ lead_tags = EmptyBag
    /\ user_rows = team_users /\ pipeline_stages = {}
    /\ nextId = FirstRowId
    /\ conn = [c \in Conns |-> FreshConn]
    /\ req = [r \in Reqs |-> Idle]

\* the one call arrives
HookCall ==
    /\ req[1].pc = "idle"
    /\ StartWebhook(1, WebhookPayloads)

NextHook ==
    \/ HookCall
    \/ Connect(1) \/ Begin(1) \/ SelectTenant(1) \/ SetLocal(1)
    \/ FindContact(1) \/ UpdateContact(1) \/ NewContact(1) \/ CreateLeadRow(1)
    \/ LogActivity(1)
    \/ Commit(1) \/ Rollback(1)

SpecHook == InitHook /\ [][NextHook]_vars

\* the call in slot 1 is a webhook whose tenant_id is no row of tenants
UnknownTenantCall(q) == q.op = "webhook" /\ q.in.tenant_id \notin Tenants

\* C17: handleLeadCaptured called with a tenant_id that is not in tenants
\* answers 422 (when no statement of the store is rejected), creates or
\* modifies no contact, lead or activity-log row and binds no tenant context.
C17_WebhookUnknownTenant ==
    [][ UnknownTenantCall(req[1]) =>
          /\ contacts' = contacts /\ leads' = leads /\ activity_log' = activity_log
          /\ \A c \in Conns : /\ conn'[c].pending = conn[c].pending
                               /\ conn'[c].tenantVar = conn[c].tenantVar
          /\ UnknownTenantCall(req'[1]) /\ req'[1].bindConn = NULL
          /\ (req'[1].pc = "done" /\ ~req'[1].fault) => req'[1].resp = 422 ]_vars

\* a webhook for tenant 3 carrying an email was answered 422
C17_Witness ==
    /\ UnknownTenantCall(req[1]) /\ req[1].in.email # ""
    /\ req[1].pc = "done" /\ req[1].resp = 422
    /\ leads = {SeedLead(3, 1)} /\ activity_log = {}

\* rows the call added: seeds carry the ids of SeedIds
AddedLeads == { l \in leads : l.id \notin SeedIds }
AddedContacts == { c \in contacts : c.id \notin SeedIds }

\* contacts of the payload tenant, there before the call, that carry the
\* visitor's email or phone
MatchedBefore(p) ==
    { c \in contacts : /\ c.id \in SeedIds /\ c.tenant_id = p.tenant_id
                       /\ \/ p.email # "" /\ c.email = p.email
                          \/ p.phone # "" /\ c.phone = p.phone }

\* C18: a successful handleLeadCaptured call adds exactly one lead (status
\* new, stage lead, score 0, source fairex, tenant of the payload, its
\* exhibition_id and join_id) and exactly one activity-log row referencing
\* it; one new contact when the visitor's email/phone matches no contact of
\* the tenant, none when it matches one, and none, with a null contact_id on
\* the lead, when the visitor has neither email nor phone.
C18_WebhookSuccess ==
    (req[1].op = "webhook" /\ Succeeded(req[1])) =>
        LET p == req[1].in
        IN  /\ Cardinality(AddedLeads) = 1
            /\ Cardinality(activity_log) = 1
            /\ \A l \in AddedLeads :
                 /\ l.status = "new" /\ l.stage = "lead" /\ l.score = 0
                 /\ l.source = "fairex" /\ l.tenant_id = p.tenant_id
                 /\ l.exhibition_id = p.exhibition_id /\ l.join_id = p.join_id
                 /\ \A a \in activity_log : a.entity = "lead" /\ a.entity_id = l.id
                 /\ IF p.email = "" /\ p.phone = ""
                      THEN AddedContacts = {} /\ l.contact_id = NULL
                      ELSE IF MatchedBefore(p) = {}
                        THEN /\ Cardinality(AddedContacts) = 1
                             /\ \A c \in AddedContacts :
                                  c.id = l.contact_id /\ c.tenant_id = p.tenant_id
                        ELSE /\ AddedContacts = {}
                             /\ \E c \in MatchedBefore(p) : c.id = l.contact_id

\* a successful call that created a contact, one that matched a contact,
\* and one of a visitor without email and phone
C18_Witness ==
    /\ req[1].op = "webhook" /\ Succeeded(req[1])
    /\ req[1].in.email = "a@x.com" /\ req[1].in.tenant_id = 2
    /\ MatchedBefore(req[1].in) = {} /\ Cardinality(AddedContacts) = 1
    /\ Cardinality(contacts) = 2

----------------------------------------------------------------------------
(* The ORDER BY column of the list queries                                  *)

MaxSortLen == 2

\* a sort option is a string, here a sequence of pieces: a run of the
\* characters [a-zA-Z0-9_.] or one character outside them
SortWords == {"created_at", "name", "nosuch"}
SortMarks == {";"}
SortOptions == UNION { [1..n -> SortWords \cup SortMarks] : n \in 0..MaxSortLen }

\* no sort option in the query string
NoSort == << >>

\* the fields each list endpoint documents or validates for its sort option
LeadSortFields == {"created_at", "updated_at", "score"}
ContactSortFields == {"created_at", "first_name", "last_name", "email"}
CompanySortFields == {"name", "created_at", "contact_count", "opportunity_count",
                      "total_won_value"}
TagSortFields == {"name", "created_at", "lead_count"}
UserSortFields == {"name", "email", "created_at"}

SortEntities == {"lead", "contact", "company", "tag", "user"}

SortFields(e) ==
    CASE e = "lead" -> LeadSortFields
      [] e = "contact" -> ContactSortFields
      [] e = "company" -> CompanySortFields
      [] e = "tag" -> TagSortFields
      [] e = "user" -> UserSortFields

\* the column each builder orders by when it takes no sort option
DefaultSort(e) == IF e = "tag" THEN << "lead_count" >> ELSE << "created_at" >>

\* sort_by.replace(/[^a-zA-Z0-9_.]/g, '')
Sanitize(sort) == SelectSeq(sort, LAMBDA piece : piece \in SortWords)

\* LeadModel.getLeadsWithFilters: ORDER BY l.${sort}, sort = 'created_at' when
\* the option is absent (the table alias is left out of the column)
LeadOrderBy(sort) == IF sort = NoSort THEN << "created_at" >> ELSE sort

\* ContactModel.findAll, CompanyModel.findAll, TagModel.findAll and
\* UserModel.findAll: the stripped option when one is given, else the default
FindAllOrderBy(e, sort) == IF sort # NoSort THEN Sanitize(sort) ELSE DefaultSort(e)

OrderBy(e, sort) == IF e = "lead" THEN LeadOrderBy(sort) ELSE FindAllOrderBy(e, sort)

\* the query text built for a sort option
OrderByCall(r, e, t, sort) ==
    req' = [req EXCEPT ![r] =
              [Idle EXCEPT !.op = "orderBy", !.pc = "done", !.tenant = t,
                           !.in = [entity |-> e, sort |-> sort],
                           !.upd = [column |-> OrderBy(e, sort)]]]

\* LeadModel.getLeadsWithFilters builds its query
GetLeadsQuery(r) ==
    /\ req[r].pc = "idle"
    /\ \E t \in Tenants : \E sort \in SortOptions : OrderByCall(r, "lead", t, sort)
    /\ UNCHANGED <<store, conn>>

\* ContactModel.findAll builds its query
ContactFindAll(r) ==
    /\ req[r].pc = "idle"
    /\ \E t \in Tenants : \E sort \in SortOptions : OrderByCall(r, "contact", t, sort)
    /\ UNCHANGED <<store, conn>>

\* CompanyModel.findAll builds its query
CompanyFindAll(r) ==
    /\ req[r].pc = "idle"
    /\ \E t \in Tenants : \E sort \in SortOptions : OrderByCall(r, "company", t, sort)
    /\ UNCHANGED <<store, conn>>

\* TagModel.findAll builds its query
TagFindAll(r) ==
    /\ req[r].pc = "idle"
    /\ \E t \in Tenants : \E sort \in SortOptions : OrderByCall(r, "tag", t, sort)
    /\ UNCHANGED <<store, conn>>

\* UserModel.findAll builds its query
UserFindAll(r) ==
    /\ req[r].pc = "idle"
    /\ \E t \in Tenants : \E sort \in SortOptions : OrderByCall(r, "user", t, sort)
    /\ UNCHANGED <<store, conn>>

NextSort ==
    \E r \in Reqs :
        \/ GetLeadsQuery(r) \/ ContactFindAll(r) \/ CompanyFindAll(r)
        \/ TagFindAll(r) \/ UserFindAll(r)

SpecSort == Init /\ [][NextSort]_vars

\* the one-field strings of a set of fields
Fields(S) == { << f >> : f \in S }

\* C19: for every client-supplied sort option the ORDER BY column of the
\* leads, contacts, companies, tags and users list queries is a field of the
\* entity's allow-list, and an option outside the allow-list yields the
\* default sort.
C19_SortAllowList ==
    \A r \in Reqs :
        (req[r].op = "orderBy" /\ req[r].pc = "done") =>
            LET e == req[r].in.entity
            IN  /\ req[r].upd.column \in Fields(SortFields(e))
                /\ req[r].in.sort \notin Fields(SortFields(e))
                     => req[r].upd.column = DefaultSort(e)

----------------------------------------------------------------------------
(* delete of leads, contacts, companies and tags                            *)

DeleteEntities == {"lead", "contact", "company", "tag"}

\* the call answered in slot 1 by this step is a delete of entity e
DeleteAnswered(e) ==
    /\ req'[1] # req[1]
    /\ req'[1].op = "byId" /\ req'[1].in.kind = "delete" /\ req'[1].in.entity = e

\* the rows of entity e with the id and the tenant of the call answered
Owned(e) ==
    { x \in TableOf(e) : x.id = req'[1].in.id /\ x.tenant_id = req'[1].tenant }

\* C20: for lead, contact, company and tag, delete(id, tenant) returns true
\* exactly when a row with that id owned by that tenant existed and removes
\* only that row; a delete of an id the tenant does not hold, a second delete
\* of the same id included, returns false and changes nothing.
C20_DeleteIdempotence ==
    [][ /\ DeleteAnswered("lead") =>
             /\ req'[1].resp = (IF Owned("lead") # {} THEN 200 ELSE 404)
             /\ leads' = leads \ Owned("lead")
             /\ UNCHANGED <<contacts, companies, tags, lead_tags, activity_log>>
        /\ DeleteAnswered("contact") =>
             /\ req'[1].resp = (IF Owned("contact") # {} THEN 200 ELSE 404)
             /\ contacts' = contacts \ Owned("contact")
             /\ UNCHANGED <<leads, companies, tags, lead_tags, activity_log>>
        /\ DeleteAnswered("company") =>
             /\ req'[1].resp = (IF Owned("company") # {} THEN 200 ELSE 404)
             /\ companies' = companies \ Owned("company")
             /\ UNCHANGED <<leads, contacts, tags, lead_tags, activity_log>>
        /\ DeleteAnswered("tag") =>
             /\ req'[1].resp = (IF Owned("tag") # {} THEN 200 ELSE 404)
             /\ tags' = tags \ Owned("tag")
             /\ UNCHANGED <<leads, contacts, companies, lead_tags, activity_log>> ]_vars

\* tenant 1 deleted tag 3 a second time: no row carried the id before the
\* call, the answer was not-found and tenant 2's tag is in place
C20_Witness ==
    /\ req[1].op = "byId" /\ req[1].in.kind = "delete" /\ req[1].in.entity = "tag"
    /\ req[1].tenant = 1 /\ req[1].in.id = 3
    /\ req[1].upd = {} /\ req[1].resp = 404
    /\ \E x \in tags : x.id = 4 /\ x.tenant_id = 2

----------------------------------------------------------------------------
(* generateToken                                                            *)

\* the email and password_hash columns of team_users: the active users of
\* both tenants share an email, the inactive user of tenant 1 has another
Bcrypt(password) == << "$2b$", password >>
UserEmail(id) == IF id = InactiveUser.id THEN "v@x.com" ELSE "u@x.com"
PasswordHash(id) == IF id = 2 THEN Bcrypt("pw2") ELSE Bcrypt("pw1")

\* bcrypt.compare(password, user.password_hash)
BcryptCompare(password, hash) == Bcrypt(password) = hash

\* UserModel.findByEmailAndTenant: WHERE tu.email = $1 AND tu.tenant_id = $2
\* AND tu.is_active = true
FindByEmailAndTenant(email, tenantId) ==
    { u \in user_rows : /\ UserEmail(u.id) = email /\ u.tenant_id = tenantId
                        /\ u.is_active /\ u.tenant_id \in Tenants }

\* jwt.sign({userId, tenantId, ...}, JWT_SECRET, {expiresIn: '24h'})
Sign(u) ==
    [present |-> TRUE, signed |-> TRUE, expired |-> FALSE,
     userId |-> u.id, tenantId |-> u.tenant_id]

LoginEmails == {"u@x.com", "v@x.com"}
Passwords == {"pw1", "pw2"}
Logins == [username : LoginEmails, password : Passwords, tenant_id : Tenants]

\* the answer of generateToken to a login
LoginCall(r, variant, login, status, issued) ==
    req' = [req EXCEPT ![r] =
              [Idle EXCEPT !.op = "login", !.pc = "done",
                           !.in = [variant |-> variant, login |-> login],
                           !.upd = issued, !.resp = status,
                           !.fault = (status = 500)]]

\* generateToken of authController.js: the user lookup, then the token
GenerateToken(r) ==
    /\ req[r].pc = "idle"
    /\ \E login \in Logins :
         LET found == FindByEmailAndTenant(login.username, login.tenant_id)
         IN \/ found = {} /\ LoginCall(r, "stub", login, 401, {})
            \/ \E u \in found : LoginCall(r, "stub", login, 200, {Sign(u)})
            \/ LoginCall(r, "stub", login, 500, {})
    /\ UNCHANGED <<store, conn>>

\* generateToken of the bcrypt variant: the user lookup, the comparison of
\* the password with password_hash, then the token
GenerateTokenBcrypt(r) ==
    /\ req[r].pc = "idle"
    /\ \E login \in Logins :
         LET found == FindByEmailAndTenant(login.username, login.tenant_id)
         IN \/ found = {} /\ LoginCall(r, "bcrypt", login, 401, {})
            \/ \E u \in found :
                 IF BcryptCompare(login.password, PasswordHash(u.id))
                   THEN LoginCall(r, "bcrypt", login, 200, {Sign(u)})
                   ELSE LoginCall(r, "bcrypt", login, 401, {})
            \/ LoginCall(r, "bcrypt", login, 500, {})
    /\ UNCHANGED <<store, conn>>

NextLogin == \E r \in Reqs : GenerateToken(r) \/ GenerateTokenBcrypt(r)

SpecLogin == InitAuth /\ [][NextLogin]_vars

\* the active users of the requested tenant with the email whose stored
\* hash the password matches
Verified(login) ==
    { u \in user_rows : /\ u.is_active /\ u.tenant_id = login.tenant_id
                        /\ UserEmail(u.id) = login.username
                        /\ PasswordHash(u.id) = Bcrypt(login.password) }

\* C21: generateToken issues a credential only when an active user with the
\* email exists in the requested tenant and the password matches that
\* user's stored hash; otherwise it answers 401 and issues none; an issued
\* credential embeds that user's id and tenant id.
C21_TokenNeedsVerifiedCredential ==
    \A r \in Reqs :
        (req[r].op = "login" /\ req[r].pc = "done") =>
            /\ \A token \in req[r].upd :
                 \E u \in Verified(req[r].in.login) :
                    token.userId = u.id /\ token.tenantId = u.tenant_id
            /\ (Verified(req[r].in.login) = {} /\ ~req[r].fault)
                  => req[r].resp = 401 /\ req[r].upd = {}

----------------------------------------------------------------------------
(* Two contact-creating requests at the same time                           *)

\* both requests are of tenant 1 and carry the same email
RacePayloads ==
    [tenant_id : {1}, email : {"a@x.com"}, phone : {""}, first_name : {"Jo"},
     last_name : {""}, kf_visitor_id : {""}, exhibition_id : {7}, join_id : {9}]
RaceLeadInputs ==
    [email : {"a@x.com"}, phone : {""}, first_name : {""}, last_name : {""},
     company_id : {NULL}, source : {""}, status : {""}]
RaceContactInputs ==
    [email : {"a@x.com"}, phone : {""}, first_name : {"Jo"}, company_id : {NULL}]

\* each slot takes one request: handleLeadCaptured, createLead or
\* createContact
RaceWebhook(r) == req[r].pc = "idle" /\ StartWebhook(r, RacePayloads)
RaceCreateLead(r) ==
    req[r].pc = "idle" /\ StartAuthenticated(r, "createLead", TxUsers, RaceLeadInputs)
RaceCreateContact(r) ==
    req[r].pc = "idle" /\ StartAuthenticated(r, "createContact", TxUsers, RaceContactInputs)

NextRace ==
    \E r \in Reqs :
        \/ RaceWebhook(r) \/ RaceCreateLead(r) \/ RaceCreateContact(r)
        \/ Authenticate(r)
        \/ Connect(r) \/ Begin(r) \/ SelectTenant(r) \/ SetLocal(r)
        \/ FindContact(r) \/ UpdateContact(r) \/ NewContact(r) \/ CreateLeadRow(r)
        \/ LogActivity(r) \/ FetchLead(r)
        \/ Commit(r) \/ Rollback(r)
        \/ CheckCompany(r) \/ FindExisting(r) \/ InsertContact(r) \/ FetchContact(r)

SpecRace == Init /\ [][NextRace]_vars

\* two different contact rows of one tenant with the same email or phone
SharedKey(a, b) ==
    /\ a # b /\ a.tenant_id = b.tenant_id
    /\ \/ a.email # "" /\ a.email = b.email
       \/ a.phone # "" /\ a.phone = b.phone

\* C22: for every interleaving of two concurrent contact-creating requests
\* of one tenant with the same email or phone, at most one contact row with
\* that email/phone exists in the tenant once both have finished.
C22_ConcurrentDedup ==
    (\A r \in Reqs : req[r].pc = "done") =>
        \A a \in contacts : \A b \in contacts : ~SharedKey(a, b)

----------------------------------------------------------------------------
(* The order of ROLLBACK and the failure response                           *)

\* this step sends a failure response of a transactional handler whose
\* BEGIN was issued on its connection
FailureSent(r) ==
    /\ req[r].op \in TxOps /\ req[r].pc # "done"
    /\ req[r].client # NULL /\ conn[req[r].client].inTx
    /\ req'[r].pc = "done" /\ req'[r].resp >= 400

\* C23: in createLead, addTagsToLead, createTask, createInteraction and
\* handleLeadCaptured, on every path that sends a failure response after
\* BEGIN, the early 404/422 returns included, the ROLLBACK of the
\* transaction has completed when the response is sent.
C23_RollbackBeforeReport ==
    [][ \A r \in Reqs : FailureSent(r) => ~conn'[req[r].client].inTx ]_vars

----------------------------------------------------------------------------
(* handleLeadCaptured on a contact that holds names                         *)

\* the contact of tenant 1 the visitor's email matches: with or without
\* names and visitor id
NamedContacts ==
    { [SeedContact(3, 1, "a@x.com", "555") EXCEPT !.first_name = f, !.last_name = l,
                                                  !.kf_visitor_id = k]
        : f \in {"", "Al"}, l \in {"", "Lee"}, k \in {"", "kf0"} }

BackfillPayloads ==
    [tenant_id : {1}, email : {"a@x.com", "b@x.com"}, phone : {"", "777"}, first_name : {"", "Jo"},
     last_name : {"", "Poe"}, kf_visitor_id : {"", "kf1"}, exhibition_id : {7}, join_id : {9}]

InitBackfill ==
    /\ \E c \in NamedContacts : contacts = {c, SeedContact(4, 2, "a@x.com", "")}
    /\ leads = {} /\ activity_log = {} /\ companies = {}
    /\ opportunities = {} /\ tasks = {} /\ interactions = {} /\ tags = {}
    /\ lead_tags = EmptyBag
    /\ user_rows = team_users /\ pipeline_stages = {}
    /\ nextId = FirstRowId
    /\ conn = [c \in Conns |-> FreshConn]
    /\ req = [r \in Reqs |-> Idle]

\* the one call arrives
BackfillCall ==
    /\ req[1].pc = "idle"
    /\ StartWebhook(1, BackfillPayloads)

NextBackfill ==
    \/ BackfillCall
    \/ Connect(1) \/ Begin(1) \/ SelectTenant(1) \/ SetLocal(1)
    \/ FindContact(1) \/ UpdateContact(1) \/ NewContact(1) \/ CreateLeadRow(1)
    \/ LogActivity(1)
    \/ Commit(1) \/ Rollback(1)

SpecBackfill == InitBackfill /\ [][NextBackfill]_vars

\* the columns of a contact other than its names
KeptColumns ==
    {"id", "tenant_id", "email", "phone", "company_id", "kf_visitor_id", "source"}

----------------------------------------------------------------------------
(* createStage calls at the same time                                       *)

\* each slot takes one createStage request of tenant 1 for one of its
\* pipelines
RaceStageInputs == [id : {3, 4}, name : {"Won"}, nextPosition : {NULL}]
StageCall(r) ==
    /\ req[r].pc = "idle"
    /\ StartAuthenticated(r, "createStage", TxUsers, RaceStageInputs)

NextStagesRace ==
    \E r \in Reqs :
        \/ StageCall(r) \/ Authenticate(r)
        \/ FindPipeline(r) \/ SelectPosition(r) \/ InsertStage(r)

SpecStagesRace == Init /\ [][NextStagesRace]_vars

\* C25: in every reachable state, also after interleaved createStage calls
\* on one pipeline, no two stages of a pipeline have the same position, and
\* a newly created stage's position is greater than that of every stage in
\* the pipeline when it is inserted.
C25_StagePositionsUnderConcurrency ==
    \A s \in pipeline_stages : \A x \in pipeline_stages :
        (x.pipeline_id = s.pipeline_id /\ x.id < s.id) => x.position < s.position

----------------------------------------------------------------------------
(* Deactivation of a user                                                   *)

\* UserModel.update(id, tenant, {is_active: false}) on an active user
Deactivate ==
    /\ \E u \in user_rows :
         /\ u.is_active
         /\ user_rows' = UserUpdated(u.id, u.tenant_id, [is_active |-> FALSE])
    /\ UNCHANGED <<pipeline_stages, contacts, leads, activity_log, companies,
                    opportunities, tasks, interactions, tags, lead_tags, nextId, conn, req>>

\* the credentials generateToken issued to the users while they were active
IssuedTokens == { Sign(u) : u \in user_rows }

\* the user of the token has its active flag cleared
Cleared(token) == \E u \in user_rows : u.id = token.userId /\ ~u.is_active

\* a request bearing an issued credential arrives at the middleware; late
\* records whether the user's flag was cleared by then
ArriveIssued(r) ==
    /\ ~InFlight(r)
    /\ \E v \in Variants, token \in IssuedTokens :
         req' = [req EXCEPT ![r] =
                   [Idle EXCEPT !.op = "auth", !.pc = "verify",
                                !.in = [variant |-> v, token |-> token,
                                        late |-> Cleared(token)]]]
    /\ UNCHANGED <<store, conn>>

\* logins in slot 1, requests with credentials in slot 2, deactivations at
\* any time; no user is activated again
NextDeactivate ==
    \/ Deactivate
    \/ GenerateToken(1) \/ GenerateTokenBcrypt(1)
    \/ ArriveIssued(2) \/ VerifyToken(2) \/ FindUser(2) \/ SetTenantContext(2)
    \/ Downstream(2)

SpecDeactivate == InitAuth /\ [][NextDeactivate]_vars

\* a request that arrived after its user's flag was cleared is not passed on
\* and is answered 401
LateRejected ==
    (req[2].op = "auth" /\ req[2].in.late) =>
        /\ req[2].pc \notin {"setTenantContext", "next"}
        /\ req[2].pc = "done" => req[2].resp = 401

\* a login answered in this step issues no credential for a user whose flag
\* is cleared
NoneIssuedWhenCleared ==
    (req'[1] # req[1] /\ req'[1].op = "login") =>
        \A token \in req'[1].upd : ~Cleared(token)

----------------------------------------------------------------------------
(* Contact data without email and phone                                     *)

\* contact data named Jo, with or without an email, never with a phone
KeylessLeadInputs ==
    [email : Emails, phone : {""}, first_name : {"Jo"}, last_name : {""},
     company_id : {NULL}, source : {""}, status : {""}]
KeylessContactInputs ==
    [email : Emails, phone : {""}, first_name : {"Jo"}, company_id : {NULL}]

\* contacts without email and phone exist in both tenants, and one with
\* an email
InitKeyless ==
    /\ contacts = {SeedContact(3, 1, "", ""), SeedContact(4, 2, "", "")}
    /\ leads = {} /\ activity_log = {} /\ companies = {}
    /\ opportunities = {} /\ tasks = {} /\ interactions = {} /\ tags = {}
    /\ lead_tags = EmptyBag
    /\ user_rows = team_users /\ pipeline_stages = {}
    /\ nextId = FirstRowId
    /\ conn = [c \in Conns |-> FreshConn]
    /\ req = [r \in Reqs |-> Idle]

\* one createContact or createLead request
KeylessCreateContact ==
    /\ req[1].pc = "idle"
    /\ StartAuthenticated(1, "createContact", team_users, KeylessContactInputs)
KeylessCreateLead ==
    /\ req[1].pc = "idle"
    /\ StartAuthenticated(1, "createLead", team_users, KeylessLeadInputs)

NextKeyless ==
    \/ KeylessCreateContact \/ KeylessCreateLead
    \/ Authenticate(1)
    \/ Connect(1) \/ Begin(1) \/ SetLocal(1)
    \/ FindContact(1) \/ NewContact(1) \/ CreateLeadRow(1) \/ FetchLead(1)
    \/ Commit(1) \/ Rollback(1)
    \/ CheckCompany(1) \/ FindExisting(1) \/ InsertContact(1) \/ FetchContact(1)

SpecKeyless == InitKeyless /\ [][NextKeyless]_vars

\* the request carries contact data with neither email nor phone
Keyless(q) ==
    /\ q.op \in {"createContact", "createLead"}
    /\ q.in.email = "" /\ q.in.phone = ""

\* C27: a contact-creating call whose contact data has neither email nor
\* phone never matches an existing contact and always creates a new contact
\* row, in createContact and in the contact step of createLead.
C27_DedupWithoutKeys ==
    (Keyless(req[1]) /\ Succeeded(req[1])) =>
        /\ req[1].newContact \notin SeedIds \cup {NULL}
        /\ \E c \in contacts :
              /\ c.id = req[1].newContact /\ c.tenant_id = req[1].tenant
              /\ c.email = "" /\ c.phone = ""

----------------------------------------------------------------------------
(* updateLead and the columns it writes                                     *)

\* req.body of PATCH /leads/:id: the validators check status and score when
\* present and let any further key through
LeadBodies == Bags([status |-> "working", score |-> 5, tenant_id |-> 2])

\* LeadModel.update: SET <each key of updates> = <its value>, updated_at =
\* CURRENT_TIMESTAMP WHERE id = $1 AND tenant_id = $2
LeadUpdatedAt(id, tenantId, updates, now) ==
    { IF Matches(x, id, tenantId)
        THEN [SetFields(x, updates) EXCEPT !.updated_at = now] ELSE x : x \in leads }

\* leadsController.updateLead: LeadModel.exists, then LeadModel.update with
\* req.body; a body without keys makes the statement malformed
UpdateLead(r) ==
    /\ ~InFlight(r)
    /\ \E t \in Tenants, id \in SeedIds, updates \in LeadBodies, now \in Times :
         IF ~LeadExists(id, t)
           THEN /\ leads' = leads
                /\ UpdateCall(r, "lead", t, id, updates, 404)
           ELSE IF DOMAIN updates = {}
             THEN /\ leads' = leads
                  /\ UpdateCall(r, "lead", t, id, updates, 500)
             ELSE /\ leads' = LeadUpdatedAt(id, t, updates, now)
                  /\ UpdateCall(r, "lead", t, id, updates, 200)
    /\ UNCHANGED <<user_rows, pipeline_stages, contacts, activity_log, companies,
                    opportunities, tasks, interactions, tags, lead_tags, nextId, conn>>

\* lead 3 was created in tenant 1, lead 4 in tenant 2
InitOwnership ==
    /\ leads = {Stamped(SeedLead(3, 1), 0), Stamped(SeedLead(4, 2), 0)}
    /\ contacts = {} /\ activity_log = {} /\ companies = {}
    /\ opportunities = {} /\ tasks = {} /\ interactions = {} /\ tags = {}
    /\ lead_tags = EmptyBag
    /\ user_rows = team_users /\ pipeline_stages = {}
    /\ nextId = FirstRowId
    /\ conn = [c \in Conns |-> FreshConn]
    /\ req = [r \in Reqs |-> Idle]

\* updateLead and deleteLead requests, one after the other
NextOwnership == UpdateLead(1) \/ LeadDelete(1)

SpecOwnership == InitOwnership /\ [][NextOwnership]_vars

\* the tenant each lead was created in
CreatedIn(id) == IF id = 3 THEN 1 ELSE 2

\* the columns updateLead may write
Writable == {"owner_user_id", "status", "stage", "score", "notes", "updated_at"}

\* C28: after any sequence of operations every lead's id and tenant_id are
\* those assigned at its creation; updateLead, whatever keys its body
\* carries, writes no column other than owner_user_id, status, stage, score,
\* notes and updated_at.
C28_RowOwnershipImmutable ==
    /\ \A l \in leads : l.id \in SeedIds /\ l.tenant_id = CreatedIn(l.id)
    /\ \A l \in leads : \A f \in DOMAIN l \ Writable :
          l[f] = Stamped(SeedLead(l.id, CreatedIn(l.id)), 0)[f]

----------------------------------------------------------------------------
(* updateContact and the dedup keys                                         *)

\* req.body of PUT /contacts/:id: a new email, a new phone, both or neither
ContactUpdates ==
    { [NoContactUpdate EXCEPT !.email = e, !.phone = p]
        : e \in {"", "b@x.com"}, p \in {"", "555"} }

\* contactsController.updateContact: findById, then, if the body has an
\* email or a phone, findByEmailOrPhone with the body's values or else the
\* contact's own (LIMIT 1 without ORDER BY: any matching row), 422 if that
\* row is another contact, then ContactModel.update
ContactsUpdateContact(r) ==
    /\ ~InFlight(r)
    /\ \E t \in Tenants, id \in SeedIds, updates \in ContactUpdates :
         LET found == FindById(contacts, id, t)
         IN IF found = {}
              THEN /\ contacts' = contacts
                   /\ UpdateCall(r, "contact", t, id, updates, 404)
              ELSE \E c \in found :
                     LET m == IF updates.email # "" \/ updates.phone # ""
                                THEN ContactMatches(t, Coalesce(updates.email, c.email),
                                                    Coalesce(updates.phone, c.phone))
                                ELSE {}
                     IN \/ /\ \E existing \in m : existing.id # id
                           /\ contacts' = contacts
                           /\ UpdateCall(r, "contact", t, id, updates, 422)
                        \/ /\ m = {} \/ \E existing \in m : existing.id = id
                           /\ contacts' = ContactUpdated(id, t, updates)
                           /\ UpdateCall(r, "contact", t, id, updates, 200)
    /\ UNCHANGED <<user_rows, pipeline_stages, leads, activity_log, companies,
                    opportunities, tasks, interactions, tags, lead_tags, nextId, conn>>

\* tenant 1 holds contact 3 (a@x.com, 555) and contact 4 (b@x.com, no
\* phone)
InitContactUpdate ==
    /\ contacts = {SeedContact(3, 1, "a@x.com", "555"), SeedContact(4, 1, "b@x.com", "")}
    /\ leads = {} /\ activity_log = {} /\ companies = {}
    /\ opportunities = {} /\ tasks = {} /\ interactions = {} /\ tags = {}
    /\ lead_tags = EmptyBag
    /\ user_rows = team_users /\ pipeline_stages = {}
    /\ nextId = FirstRowId
    /\ conn = [c \in Conns |-> FreshConn]
    /\ req = [r \in Reqs |-> Idle]

\* createContact and updateContact requests, one after the other
NextContactUpdate ==
    \/ StartAuthenticated(1, "createContact", team_users, ContactInputs)
    \/ Authenticate(1)
    \/ CheckCompany(1) \/ FindExisting(1) \/ InsertContact(1) \/ FetchContact(1)
    \/ ContactsUpdateContact(1)

SpecContactUpdate == InitContactUpdate /\ [][NextContactUpdate]_vars

\* C29: with requests one after the other, an updateContact that would set
\* the email or phone of a contact to a value another contact of the tenant
\* holds is answered 422 and changes nothing, whichever row the lookup
\* returns; so no sequence of createContact and updateContact calls leaves
\* two contacts of a tenant with the same email or phone.
C29_UpdateKeepsKeysUnique ==
    /\ \A a \in contacts : \A b \in contacts : ~SharedKey(a, b)
    /\ (req[1].op = "update" /\ req[1].resp = 200) =>
          \A c \in contacts :
             (c.id # req[1].in.id /\ c.tenant_id = req[1].tenant) =>
                 /\ req[1].in.bag.email # "" => c.email # req[1].in.bag.email
                 /\ req[1].in.bag.phone # "" => c.phone # req[1].in.bag.phone

----------------------------------------------------------------------------
(* addTagsToLead followed by removeTagFromLead                              *)

\* the links the DELETE of TagModel.removeFromLead removes: lead_id = $1 AND
\* tag_id = (SELECT t.id FROM tags t WHERE t.name = $2 AND t.tenant_id = $3)
LinksOfName(leadId, tagName, tenantId) ==
    { k \in BagToSet(lead_tags) :
        /\ k[1] = leadId
        /\ \E t \in tags : t.id = k[2] /\ t.name = tagName /\ t.tenant_id = tenantId }

\* TagModel.removeFromLead: lead_tags without those links
RemoveFromLead(leadId, tagName, tenantId) ==
    [ k \in BagToSet(lead_tags) \ LinksOfName(leadId, tagName, tenantId) |-> lead_tags[k] ]

TagNames == { <<"h">>, <<" ", "h">>, <<"h", " ">> }

\* leadsController.removeTagFromLead: 200 if removeFromLead removed a row,
\* else 404
RemoveTagFromLead(r) ==
    /\ ~InFlight(r)
    /\ \E u \in team_users, id \in SeedIds, tagName \in TagNames :
         /\ lead_tags' = RemoveFromLead(id, tagName, u.tenant_id)
         /\ req' = [req EXCEPT ![r] =
                      [Idle EXCEPT !.op = "removeTag", !.pc = "done",
                                   !.tenant = u.tenant_id, !.user = u.id,
                                   !.in = [id |-> id, tagName |-> tagName],
                                   !.resp = IF LinksOfName(id, tagName, u.tenant_id) # {}
                                              THEN 200 ELSE 404]]
    /\ UNCHANGED <<user_rows, pipeline_stages, contacts, leads, activity_log, companies,
                    opportunities, tasks, interactions, tags, nextId, conn>>

\* tenant 1 owns leads 3 and 4
InitRoundTrip ==
    /\ leads = {SeedLead(3, 1), SeedLead(4, 1)}
    /\ contacts = {} /\ activity_log = {} /\ companies = {}
    /\ opportunities = {} /\ tasks = {} /\ interactions = {} /\ tags = {}
    /\ lead_tags = EmptyBag
    /\ user_rows = team_users /\ pipeline_stages = {}
    /\ nextId = FirstRowId
    /\ conn = [c \in Conns |-> FreshConn]
    /\ req = [r \in Reqs |-> Idle]

RoundTripInputs == [id : SeedIds, tags : { << s >> : s \in TagNames }]

\* addTagsToLead requests in slot 1, each with one name
RoundTripCall == StartAuthenticated(1, "addTags", TxUsers, RoundTripInputs)

\* removeTagFromLead requests in slot 2
NextRoundTrip ==
    \/ RoundTripCall
    \/ Authenticate(1)
    \/ Connect(1) \/ Begin(1) \/ SetLocal(1)
    \/ LeadExistsStep(1) \/ CreateOrGet(1) \/ LinkToLeadStep(1)
    \/ Commit(1) \/ Rollback(1)
    \/ RemoveTagFromLead(2)

SpecRoundTrip == InitRoundTrip /\ [][NextRoundTrip]_vars

\* this step answers a removeTagFromLead for the lead, the name and the
\* tenant of the addTagsToLead call that succeeded in slot 1, whose link
\* still exists
RoundTrip ==
    /\ Tagged(req[1]) /\ req[2].pc \in {"idle", "done"} /\ req'[2] # req[2]
    /\ req'[2].op = "removeTag" /\ req'[2].tenant = req[1].tenant
    /\ req'[2].in.id = req[1].in.id /\ req'[2].in.tagName = req[1].in.tags[1]
    /\ BagIn(<<req[1].in.id, req[1].added[1]>>, lead_tags)

\* C30: for every tag name s accepted by addTagsToLead, names with leading
\* or trailing whitespace included, after addTagsToLead(L, [s]) succeeded,
\* removeTagFromLead(L, s) by the same tenant reports success and the link
\* of L and the tag is gone; the tag row and its links to other leads are
\* unchanged.
C30_TagRoundTrip ==
    [][ RoundTrip =>
          /\ req'[2].resp = 200
          /\ ~BagIn(<<req[1].in.id, req[1].added[1]>>, lead_tags')
          /\ tags' = tags
          /\ \A k \in BagToSet(lead_tags) :
                k # <<req[1].in.id, req[1].added[1]>> => BagIn(k, lead_tags') ]_vars

====
